---- MODULE Spec2Model ----
(***************************************************************************)
(* Job-application dashboard (src/app.py and src/main7.py).                *)
(*                                                                         *)
(* Text is modelled as a sequence of one-character strings so that         *)
(* trimming, lower-casing and substring tests are computed, not assumed.   *)
(* A DataFrame is a record [columns, rows]; a cell is a record [t, s, n]   *)
(* with t in {"na", "str", "ts", "nat"}.                                   *)
(***************************************************************************)
EXTENDS Integers, Sequences, FiniteSets, TLC

VARIABLES
    variant,      \* "app" (src/app.py) or "main7" (src/main7.py)
    ties,         \* how the sort routines of the build order equal keys
    source,       \* the external sheet as the next fetch would deliver it
    colsFile,     \* dashboard_columns_<username>.csv: NoFile or its rows
    urlFile,      \* dashboard_sheeturl_<username>.txt: NoUrlFile or its text
    path,         \* the pathname the browser asks display_page for
    formUrl,      \* the sheet URL typed into the form of the home page
    page,         \* what display_page returned for the pathname
    created,      \* what create_user_dashboard returned last
    content,      \* children of the 'dashboard-content' element
    reqs,         \* refresh callbacks in flight, one record per request
    last,         \* what each helper returned in the build that ended last
    everBuilt     \* TRUE once a build of the instance has produced a ViewModel

vars == <<variant, ties, source, colsFile, urlFile, path, formUrl, page, created,
          content, reqs, last, everBuilt>>

(***************************************************************************)
(* Bounds of the model.                                                    *)
(***************************************************************************)
MaxCols == 2          \* columns of a fetched sheet
MaxRows == 2          \* rows of a fetched sheet in SpecBuild
MaxTimelineRows == 3  \* rows of a fetched sheet in SpecTimeline
MaxInFlight == 2      \* refresh requests of one instance in flight at once
MaxUrlLen == 5        \* characters of a sheet URL in SpecUrl
MaxStatusRows == 2    \* rows of a fetched sheet in SpecStatus
MaxCompanyRows == 3   \* rows of a fetched sheet in SpecCompany
MaxLinkRows == 3      \* rows of a fetched sheet in SpecLinks

(***************************************************************************)
(* Text.                                                                   *)
(***************************************************************************)
UpperToLower ==
    [c \in {"A","B","C","D","E","F","G","H","I","J","K","L","M",
            "N","O","P","Q","R","S","T","U","V","W","X","Y","Z"} |->
        CASE c = "A" -> "a" [] c = "B" -> "b" [] c = "C" -> "c" [] c = "D" -> "d"
          [] c = "E" -> "e" [] c = "F" -> "f" [] c = "G" -> "g" [] c = "H" -> "h"
          [] c = "I" -> "i" [] c = "J" -> "j" [] c = "K" -> "k" [] c = "L" -> "l"
          [] c = "M" -> "m" [] c = "N" -> "n" [] c = "O" -> "o" [] c = "P" -> "p"
          [] c = "Q" -> "q" [] c = "R" -> "r" [] c = "S" -> "s" [] c = "T" -> "t"
          [] c = "U" -> "u" [] c = "V" -> "v" [] c = "W" -> "w" [] c = "X" -> "x"
          [] c = "Y" -> "y" [] c = "Z" -> "z"]

\* the sequence f as an explicit tuple (a function constructor is kept
\* unevaluated; SubSeq evaluates it once)
Tup(f) == SubSeq(f, 1, Len(f))

\* str.lower()
Lower(s) ==
    Tup([i \in 1..Len(s) |-> IF s[i] \in DOMAIN UpperToLower THEN UpperToLower[s[i]] ELSE s[i]])

IsSpace(c) == c \in {" ", "\t", "\n", "\r"}

\* str.strip()
Strip(s) ==
    LET keep == {i \in 1..Len(s) : ~IsSpace(s[i])}
    IN  IF keep = {} THEN <<>>
        ELSE LET lo == CHOOSE i \in keep : \A j \in keep : i <= j
                 hi == CHOOSE i \in keep : \A j \in keep : j <= i
             IN  SubSeq(s, lo, hi)

\* Python's `sub in s`
Contains(s, sub) ==
    \E i \in 0..(Len(s) - Len(sub)) : SubSeq(s, i + 1, i + Len(sub)) = sub

ContainsAny(s, subs) == \E i \in 1..Len(subs) : Contains(s, subs[i])

DigitChar == <<"0","1","2","3","4","5","6","7","8","9">>

IsDigit(c) == \E d \in 1..10 : DigitChar[d] = c

DigitValue(c) == (CHOOSE d \in 1..10 : DigitChar[d] = c) - 1

\* str(n) for n >= 0
RECURSIVE Digits(_)
Digits(n) ==
    IF n < 10 THEN <<DigitChar[n + 1]>>
    ELSE Digits(n \div 10) \o <<DigitChar[(n % 10) + 1]>>

Range(f) == {f[i] : i \in DOMAIN f}

(***************************************************************************)
(* Cells and DataFrames.                                                   *)
(***************************************************************************)
NA == [t |-> "na", s |-> <<>>, n |-> 0]        \* NaN: an empty CSV field
Str(s) == [t |-> "str", s |-> s, n |-> 0]      \* a text value
Ts(n) == [t |-> "ts", s |-> <<>>, n |-> n]     \* a parsed Timestamp
NaT == [t |-> "nat", s |-> <<>>, n |-> 0]      \* to_datetime's coerced failure

\* pd.isna
IsNA(c) == c.t \in {"na", "nat"}

\* Python None for a column name; `not status_col` is also true of ""
None == <<>>

HasColumn(df, col) == \E i \in 1..Len(df.columns) : df.columns[i] = col

ColIndex(df, col) == CHOOSE i \in 1..Len(df.columns) : df.columns[i] = col

\* df[col] for a column the frame has
Column(df, col) ==
    LET i == ColIndex(df, col)
    IN  Tup([r \in 1..Len(df.rows) |-> df.rows[r][i]])

IsNumericText(s) == Len(s) > 0 /\ \A i \in 1..Len(s) : IsDigit(s[i])

\* read_csv's dtype inference: a column is of object dtype (its values are
\* str) when the frame is empty or some field is text that is no number; a
\* column of empty fields only is float64, a column of numbers is numeric.
IsObjectColumn(df, col) ==
    \/ Len(df.rows) = 0
    \/ \E r \in 1..Len(df.rows) :
          LET c == Column(df, col)[r]
          IN  c.t = "str" /\ ~IsNumericText(c.s)

\* df[col].str: KeyError without the column, AttributeError ("Can only use
\* .str accessor with string values") on a column that is not of object dtype
StrAccessorOk(df, col) == HasColumn(df, col) /\ IsObjectColumn(df, col)

\* df.columns = [col.strip().lower() for col in df.columns]
NormalizeColumns(df) ==
    [df EXCEPT !.columns = Tup([i \in 1..Len(df.columns) |-> Lower(Strip(df.columns[i]))])]

\* column_map = {col.lower(): col for col in df.columns}
FreshColumnMap(df) ==
    [k \in {Lower(c) : c \in Range(df.columns)} |->
        CHOOSE c \in Range(df.columns) : Lower(c) = k]

\* column_info = DataFrame({'original': df.columns, 'lowercase': list(df.columns)})
ColumnInfo(df) == {[original |-> c, lowercase |-> c] : c \in Range(df.columns)}

\* dict(zip(column_df['lowercase'], column_df['original']))
ReadColumnMap(rows) ==
    [k \in {r.lowercase : r \in rows} |->
        (CHOOSE r \in rows : r.lowercase = k).original]

NoFile == [exists |-> FALSE, rows |-> {}]

\* variation: without the side file main7.py works with an empty map
EmptyMapOnMissingFile(v, file, df) ==
    IF v = "main7"
    THEN IF file.exists THEN ReadColumnMap(file.rows) ELSE [k \in {} |-> <<>>]
    ELSE FreshColumnMap(df)

\* the column map a build works with: rebuilt from the fetch in app.py, read
\* from the side file (with a fallback to the rebuilt one) in main7.py
BuildColumnMap(v, file, df) ==
    IF v = "main7" /\ file.exists THEN ReadColumnMap(file.rows)
    ELSE FreshColumnMap(df)

(***************************************************************************)
(* Column resolver.                                                        *)
(***************************************************************************)
StatusNames ==
    << <<"s","t","a","t","u","s">>,
       <<"a","p","p","l","i","c","a","t","i","o","n"," ","s","t","a","t","u","s">>,
       <<"j","o","b"," ","s","t","a","t","u","s">> >>

DateNames ==
    << <<"d","a","t","e">>,
       <<"a","p","p","l","i","c","a","t","i","o","n"," ","d","a","t","e">>,
       <<"a","p","p","l","i","e","d"," ","o","n">>,
       <<"a","p","p","l","y"," ","d","a","t","e">> >>

CompanyNames ==
    << <<"c","o","m","p","a","n","y">>,
       <<"o","r","g","a","n","i","z","a","t","i","o","n">>,
       <<"e","m","p","l","o","y","e","r">> >>

keywords ==
    << <<"l","i","n","k">>,
       <<"j","o","b"," ","p","a","g","e">>,
       <<"r","e","s","u","m","e">> >>

RECURSIVE GetColumnFrom(_, _, _)
GetColumnFrom(col_names, column_map, i) ==
    IF i > Len(col_names) THEN None
    ELSE IF Lower(col_names[i]) \in DOMAIN column_map
         THEN column_map[Lower(col_names[i])]
         ELSE GetColumnFrom(col_names, column_map, i + 1)

\* variation: the headers are scanned in sheet order and the first one that
\* is a synonym of the role is taken
HeaderOrderScan(df, col_names, column_map) ==
    LET hits == {i \in 1..Len(df.columns) :
                    /\ df.columns[i] \in DOMAIN column_map
                    /\ \E k \in 1..Len(col_names) : Lower(col_names[k]) = df.columns[i]}
    IN  IF hits = {} THEN None
        ELSE column_map[df.columns[CHOOSE i \in hits : \A j \in hits : i <= j]]

\* every call site passes column_map, so the `column_map is None` default of
\* the source is never taken
get_column_if_exists(df, col_names, column_map) ==
    GetColumnFrom(col_names, column_map, 1)

\* any(keyword in col.lower() for keyword in keywords)
IsLinkColumn(col) == ContainsAny(Lower(col), keywords)

LinkText(c) == <<"[","l","i","n","k","]","(">> \o c.s \o <<")">>

\* variation: a missing cell of a link-like column stays missing
LinkCellKeepsMissing(c) ==
    IF IsNA(c) THEN c
    ELSE IF Strip(c.s) # <<>> THEN Str(LinkText(c)) ELSE Str(<<>>)

\* lambda x: f"[link]({x})" if pd.notna(x) and str(x).strip() != "" else ""
LinkCell(c) ==
    IF ~IsNA(c) /\ Strip(c.s) # <<>> THEN Str(LinkText(c)) ELSE Str(<<>>)

\* variation: only the first link-like column is rewritten
RewriteFirstLink(df) ==
    LET links == {i \in 1..Len(df.columns) : IsLinkColumn(df.columns[i])}
    IN  [df EXCEPT !.rows =
            Tup([r \in 1..Len(df.rows) |->
                Tup([i \in 1..Len(df.columns) |->
                    IF i \in links /\ \A j \in links : i <= j
                    THEN LinkCell(df.rows[r][i]) ELSE df.rows[r][i]])])]

\* for col in df.columns: if any(...): df[col] = df[col].apply(...)
RewriteLinks(df) ==
    LET isLink == Tup([i \in 1..Len(df.columns) |-> IsLinkColumn(df.columns[i])])
    IN  [df EXCEPT !.rows =
            Tup([r \in 1..Len(df.rows) |->
                Tup([i \in 1..Len(df.columns) |->
                    IF isLink[i] THEN LinkCell(df.rows[r][i]) ELSE df.rows[r][i]])])]

(***************************************************************************)
(* Metrics engine.  A helper's result carries `raised` when the Python     *)
(* function ends in an exception instead of a return.                      *)
(***************************************************************************)
TopN == 10   \* value_counts().head(10)

SuccessPatterns ==
    << <<"a","p","p","r","o","v","e","d">>,
       <<"s","h","o","r","t","l","i","s","t","e","d">>,
       <<"i","n","t","e","r","v","i","e","w">>,
       <<"o","f","f","e","r">> >>

ApprovedPatterns ==
    << <<"a","p","p","r","o","v","e","d">>,
       <<"o","f","f","e","r">>,
       <<"a","c","c","e","p","t","e","d">> >>

InterviewPatterns == << <<"i","n","t","e","r","v","i","e","w">> >>

RejectedPatterns ==
    << <<"r","e","j","e","c","t","e","d">>,
       <<"d","e","c","l","i","n","e","d">> >>

\* series.str.lower().str.contains('a|b|c', na=False), one flag per row
StrContains(col, patterns) ==
    Tup([r \in 1..Len(col) |-> ~IsNA(col[r]) /\ ContainsAny(Lower(col[r].s), patterns)])

CountTrue(flags) == Cardinality({r \in 1..Len(flags) : flags[r]})

\* Python 3 round(): to the nearest integer, a tie going to the even one
PyRound(num, den) ==
    LET q == num \div den
        r == num % den
    IN  IF 2 * r < den THEN q
        ELSE IF 2 * r > den THEN q + 1
        ELSE IF q % 2 = 0 THEN q ELSE q + 1

Returned(text) == [raised |-> FALSE, text |-> text]
RaisedText == [raised |-> TRUE, text |-> <<>>]

calculate_success_rate(df, column_map) ==
    LET status_col == get_column_if_exists(df, StatusNames, column_map)
        total == Len(df.rows)
    IN  IF status_col = None THEN Returned(<<"N","/","A">>)
        ELSE IF total = 0 THEN Returned(<<"0","%">>)
        ELSE IF ~StrAccessorOk(df, status_col) THEN RaisedText
        ELSE LET positive_outcomes ==
                     CountTrue(StrContains(Column(df, status_col), SuccessPatterns))
             IN  Returned(Digits(PyRound(positive_outcomes * 100, total)) \o <<"%">>)

Counted(n) == [raised |-> FALSE, n |-> n]
RaisedCount == [raised |-> TRUE, n |-> 0]

count_status(df, status_pattern, column_map) ==
    LET status_col == get_column_if_exists(df, StatusNames, column_map)
    IN  IF status_col = None THEN Counted(0)
        ELSE IF ~StrAccessorOk(df, status_col) THEN RaisedCount
        ELSE Counted(CountTrue(StrContains(Column(df, status_col), status_pattern)))

\* pd.to_datetime(..., errors='coerce') on one value.  The dates of the model
\* are ISO dates YYYY-MM-DD; any other text is coerced to NaT.
Num2(a, b) == DigitValue(a) * 10 + DigitValue(b)

ParseDate(s) ==
    IF /\ Len(s) = 10
       /\ s[5] = "-" /\ s[8] = "-"
       /\ \A i \in {1, 2, 3, 4, 6, 7, 9, 10} : IsDigit(s[i])
       /\ Num2(s[6], s[7]) \in 1..12
       /\ Num2(s[9], s[10]) \in 1..31
    THEN Ts(((Num2(s[1], s[2]) * 100 + Num2(s[3], s[4])) * 12 + Num2(s[6], s[7])) * 31
            + Num2(s[9], s[10]))
    ELSE NaT

ToDatetime(c) ==
    CASE c.t = "ts" -> c
      [] c.t = "str" -> ParseDate(c.s)
      [] OTHER -> NaT

\* df[col] = pd.to_datetime(df[col], errors='coerce')
ToDatetimeColumn(df, col) ==
    [df EXCEPT !.rows =
        Tup([r \in 1..Len(df.rows) |->
            Tup([i \in 1..Len(df.columns) |->
                IF df.columns[i] = col THEN ToDatetime(df.rows[r][i])
                ELSE df.rows[r][i]])])]

MaxOf(S) == CHOOSE x \in S : \A y \in S : y <= x

\* returns the label and the frame, whose date column the function replaces
get_recent_activity(df, column_map) ==
    LET date_col == get_column_if_exists(df, DateNames, column_map)
    IN  IF date_col = None THEN [label |-> "No date information", n |-> 0, df |-> df]
        ELSE IF ~HasColumn(df, date_col)
             THEN [label |-> "Date format error", n |-> 0, df |-> df]
        ELSE LET df2 == ToDatetimeColumn(df, date_col)
                 valid == {c.n : c \in {x \in Range(Column(df2, date_col)) : x.t = "ts"}}
             IN  IF valid = {}
                 THEN [label |-> "Date format error", n |-> 0, df |-> df2]
                 ELSE [label |-> "date", n |-> MaxOf(valid), df |-> df2]

\* series.value_counts(): the distinct non-missing values with their counts
ValueCounts(col) ==
    {[label |-> v, value |-> Cardinality({r \in 1..Len(col) : col[r] = v})] :
        v \in {c \in Range(col) : ~IsNA(c)}}

EmptyPie(msg) == [raised |-> FALSE, kind |-> "empty", msg |-> msg, entries |-> {}]

create_status_pie(df, column_map) ==
    LET status_col == get_column_if_exists(df, StatusNames, column_map)
    IN  IF status_col = None
        THEN EmptyPie("Status distribution not available - no status column found")
        ELSE IF ~HasColumn(df, status_col)
        THEN [raised |-> TRUE, kind |-> "empty", msg |-> "", entries |-> {}]
        ELSE LET status_counts == ValueCounts(Column(df, status_col))
             IN  IF Cardinality(status_counts) = 0
                 THEN EmptyPie("No status data available")
                 ELSE [raised |-> FALSE, kind |-> "pie", msg |-> "",
                       entries |-> status_counts]

\* the permutations of 1..n
Perms(n) == {p \in [1..n -> 1..n] : \A i, j \in 1..n : p[i] = p[j] => i = j}

\* the indices i.. of keep, in order, whose flag is TRUE
RECURSIVE SelectIdx(_, _)
SelectIdx(keep, i) ==
    IF i > Len(keep) THEN <<>>
    ELSE IF keep[i] THEN <<i>> \o SelectIdx(keep, i + 1)
         ELSE SelectIdx(keep, i + 1)

\* df_timeline after to_datetime and dropna(subset=[date_col]): the row
\* numbers of df that remain, in their order
TimelineRows(df, date_col) ==
    LET dates == Column(df, date_col)
        valid == Tup([r \in 1..Len(dates) |-> ToDatetime(dates[r]).t = "ts"])
    IN  SelectIdx(valid, 1)

\* variation: the rows are left in sheet order (no sort_values)
SheetOrder(df, date_col) ==
    LET rows == TimelineRows(df, date_col)
    IN  {Tup([k \in 1..Len(rows) |-> k])}

\* sort_values(date_col) uses an unstable sort: rows of equal date may come
\* out in any order.  An order is a permutation of the remaining rows under
\* which the dates ascend.
SortOrders(df, date_col) ==
    LET rows == TimelineRows(df, date_col)
        col == Column(df, date_col)
        date == Tup([k \in 1..Len(rows) |-> ToDatetime(col[rows[k]]).n])
    IN  {p \in Perms(Len(rows)) :
            \A i, j \in 1..Len(rows) : i < j => date[p[i]] <= date[p[j]]}

\* variation: one running count for all statuses together
RECURSIVE TimelineLoopOneCounter(_, _, _, _)
TimelineLoopOneCounter(dates, statuses, i, status_counts) ==
    IF i > Len(dates) THEN <<>>
    ELSE IF IsNA(statuses[i])
         THEN TimelineLoopOneCounter(dates, statuses, i + 1, status_counts)
         ELSE LET before == Cardinality({k \in 1..(i - 1) : ~IsNA(statuses[k])})
              IN  <<[Date |-> dates[i], Status |-> statuses[i], Count |-> before + 1]>>
                  \o TimelineLoopOneCounter(dates, statuses, i + 1, status_counts)

\* the loop over zip(df_timeline[date_col], df_timeline[status_col])
RECURSIVE TimelineLoop(_, _, _, _)
TimelineLoop(dates, statuses, i, status_counts) ==
    IF i > Len(dates) THEN <<>>
    ELSE IF IsNA(statuses[i])
         THEN TimelineLoop(dates, statuses, i + 1, status_counts)
         ELSE LET before == IF statuses[i] \in DOMAIN status_counts
                            THEN status_counts[statuses[i]] ELSE 0
                  counts2 == [k \in DOMAIN status_counts \cup {statuses[i]} |->
                                 IF k = statuses[i] THEN before + 1
                                 ELSE status_counts[k]]
              IN  <<[Date |-> dates[i], Status |-> statuses[i], Count |-> before + 1]>>
                  \o TimelineLoop(dates, statuses, i + 1, counts2)

EmptyTimeline(msg) == [kind |-> "empty", msg |-> msg, points |-> <<>>]

NoCounts == [k \in {} |-> 0]

\* order: the permutation sort_values produced (see SortOrders)
create_timeline_chart(df, column_map, order) ==
    LET date_col == get_column_if_exists(df, DateNames, column_map)
        status_col == get_column_if_exists(df, StatusNames, column_map)
    IN  IF date_col = None /\ status_col = None
        THEN EmptyTimeline("Timeline not available - missing date and status data")
        ELSE IF date_col = None
        THEN EmptyTimeline("Timeline not available - missing date data")
        ELSE IF status_col = None
        THEN EmptyTimeline("Timeline not available - missing status data")
        ELSE IF ~HasColumn(df, date_col) THEN EmptyTimeline("Timeline error")
        ELSE LET rows == TimelineRows(df, date_col)
             IN  IF Len(rows) = 0
                 THEN EmptyTimeline("Timeline not available - no valid dates found")
                 ELSE IF ~HasColumn(df, status_col) THEN EmptyTimeline("Timeline error")
                 ELSE LET sorted == Tup([k \in 1..Len(rows) |-> rows[order[k]]])
                          dcol == Column(df, date_col)
                          scol == Column(df, status_col)
                          dates == Tup([k \in 1..Len(rows) |-> ToDatetime(dcol[sorted[k]]).n])
                          statuses == Tup([k \in 1..Len(rows) |-> scol[sorted[k]]])
                          timeline_data == TimelineLoop(dates, statuses, 1, NoCounts)
                      IN  IF timeline_data = <<>>
                          THEN EmptyTimeline("Timeline not available - no valid status data")
                          ELSE [kind |-> "line", msg |-> "", points |-> timeline_data]

\* the orders sort_values may produce for this call (one dummy order when the
\* function returns before sorting)
TimelineOrders(df, column_map) ==
    LET date_col == get_column_if_exists(df, DateNames, column_map)
    IN  IF date_col # None /\ HasColumn(df, date_col)
        THEN SortOrders(df, date_col)
        ELSE {<<>>}

\* value_counts() sorts by count, descending; values of equal count may come
\* out in any order.  A ranking is such an arrangement of the counted values.
Rankings(col) ==
    LET vc == ValueCounts(col)
        n == Cardinality(vc)
    IN  {q \in [1..n -> vc] :
            /\ \A i, j \in 1..n : q[i] = q[j] => i = j
            /\ \A i, j \in 1..n : i < j => q[i].value >= q[j].value}

HeadN(seq, n) == SubSeq(seq, 1, IF Len(seq) < n THEN Len(seq) ELSE n)

EmptyBar(msg) == [raised |-> FALSE, kind |-> "empty", msg |-> msg, entries |-> <<>>]

\* variation: the company chart is drawn only when Status resolves as well
CompanyChartNeedsStatus(df, column_map, ranking) ==
    LET company_col == get_column_if_exists(df, CompanyNames, column_map)
        status_col == get_column_if_exists(df, StatusNames, column_map)
    IN  IF company_col = None \/ status_col = None
        THEN EmptyBar("Company distribution not available - no company column found")
        ELSE IF ~HasColumn(df, company_col)
        THEN [raised |-> TRUE, kind |-> "empty", msg |-> "", entries |-> <<>>]
        ELSE IF \A r \in 1..Len(df.rows) : IsNA(Column(df, company_col)[r])
        THEN EmptyBar("Company distribution not available - no company data")
        ELSE [raised |-> FALSE, kind |-> "bar", msg |-> "",
              entries |-> HeadN(ranking, TopN)]

\* ranking: the arrangement value_counts produced (see Rankings)
create_company_distribution(df, column_map, ranking) ==
    LET company_col == get_column_if_exists(df, CompanyNames, column_map)
    IN  IF company_col = None
        THEN EmptyBar("Company distribution not available - no company column found")
        ELSE IF ~HasColumn(df, company_col)
        THEN [raised |-> TRUE, kind |-> "empty", msg |-> "", entries |-> <<>>]
        ELSE IF \A r \in 1..Len(df.rows) : IsNA(Column(df, company_col)[r])
        THEN EmptyBar("Company distribution not available - no company data")
        ELSE [raised |-> FALSE, kind |-> "bar", msg |-> "",
              entries |-> HeadN(ranking, TopN)]

CompanyRankings(df, column_map) ==
    LET company_col == get_column_if_exists(df, CompanyNames, column_map)
    IN  IF company_col # None /\ HasColumn(df, company_col)
        THEN Rankings(Column(df, company_col))
        ELSE {<<>>}

\* p comes before q in the lexicographic order of sequences of numbers
LexBefore(p, q) ==
    \E k \in 1..Len(p) :
        /\ \A i \in 1..(k - 1) : p[i] = q[i]
        /\ p[k] < q[k]

\* Among the orders sort_values may produce, the one the sort routine of the
\* installation produces: the routine is a function of its input, so equal
\* frames are always sorted alike.  "stable" keeps rows of equal date in
\* sheet order, "reverse" turns them round.
SortOrder(df, column_map, rule) ==
    LET orders == TimelineOrders(df, column_map)
    IN  CHOOSE p \in orders :
            \A q \in orders \ {p} :
                IF rule = "stable" THEN LexBefore(p, q) ELSE LexBefore(q, p)

\* the row in which value v first appears in col
FirstRow(col, v) == CHOOSE r \in 1..Len(col) : col[r] = v /\ \A k \in 1..(r - 1) : col[k] # v

\* Among the rankings value_counts may produce, the one the installation
\* produces: "stable" lists values of equal count in order of first
\* appearance, "reverse" in the opposite order.
CompanyRanking(df, column_map, rule) ==
    LET company_col == get_column_if_exists(df, CompanyNames, column_map)
        rankings == CompanyRankings(df, column_map)
    IN  IF company_col # None /\ HasColumn(df, company_col)
        THEN LET col == Column(df, company_col)
                 key(q) == Tup([i \in 1..Len(q) |-> FirstRow(col, q[i].label)])
             IN  CHOOSE p \in rankings :
                     \A q \in rankings \ {p} :
                         IF rule = "stable" THEN LexBefore(key(p), key(q))
                         ELSE LexBefore(key(q), key(p))
        ELSE <<>>

\* series.dropna().unique(): the distinct values in order of first appearance
RECURSIVE Unique(_, _, _)
Unique(col, i, seen) ==
    IF i > Len(col) THEN <<>>
    ELSE IF IsNA(col[i]) \/ col[i] \in seen THEN Unique(col, i + 1, seen)
         ELSE <<col[i]>> \o Unique(col, i + 1, seen \cup {col[i]})

(***************************************************************************)
(* Presentation builder.                                                   *)
(***************************************************************************)
\* variation: the five entries filter on a fixed 'status' column whether or
\* not the role resolved
HighlightAlways(status_col) ==
    LET rule(word, bg) ==
            [active |-> TRUE, column |-> <<"s","t","a","t","u","s">>, contains |-> word,
             backgroundColor |-> bg]
    IN  << rule(<<"A","p","p","r","o","v","e","d">>, "#d4edda"),
           rule(<<"S","h","o","r","t","l","i","s","t","e","d">>, "#fff3cd"),
           rule(<<"I","n","t","e","r","v","i","e","w">>, "#d1ecf1"),
           rule(<<"A","p","p","l","i","e","d">>, "#e2e3e5"),
           rule(<<"R","e","j","e","c","t","e","d">>, "#f8d7da") >>

\* the five style_data_conditional entries, `{}` when status_col is None
HighlightRules(status_col) ==
    LET rule(word, bg) ==
            IF status_col # None
            THEN [active |-> TRUE, column |-> status_col, contains |-> word,
                  backgroundColor |-> bg]
            ELSE [active |-> FALSE, column |-> None, contains |-> <<>>,
                  backgroundColor |-> ""]
    IN  << rule(<<"A","p","p","r","o","v","e","d">>, "#d4edda"),
           rule(<<"S","h","o","r","t","l","i","s","t","e","d">>, "#fff3cd"),
           rule(<<"I","n","t","e","r","v","i","e","w">>, "#d1ecf1"),
           rule(<<"A","p","p","l","i","e","d">>, "#e2e3e5"),
           rule(<<"R","e","j","e","c","t","e","d">>, "#f8d7da") >>

\* the entries of style_data_conditional whose filter_query a table row
\* satisfies: "{col} contains 'Word'" holds when the cell of col is a text
\* with Word as a substring (case matters)
MatchingRules(rules, columns, row) ==
    {k \in 1..Len(rules) :
        /\ rules[k].active
        /\ \E i \in 1..Len(columns) :
              /\ columns[i].id = rules[k].column
              /\ row[i].t = "str"
              /\ Contains(row[i].s, rules[k].contains)}

\* the backgroundColor the DataTable gives a row: the entries are a list of
\* styles applied in list order, so of the entries the row satisfies the one
\* listed last sets the colour that stays ("" when it satisfies none)
RowColour(rules, columns, row) ==
    LET ks == MatchingRules(rules, columns, row)
    IN  IF ks = {} THEN ""
        ELSE rules[CHOOSE k \in ks : \A j \in ks : j <= k].backgroundColor

\* the Dropdown, or the paragraph shown when status_options is empty
StatusFilter(status_options) ==
    IF status_options # <<>>
    THEN [kind |-> "dropdown", msg |-> "", options |-> status_options]
    ELSE [kind |-> "text", msg |-> "Status filtering not available", options |-> <<>>]

\* the DataTable's columns
TableColumns(df) ==
    Tup([i \in 1..Len(df.columns) |->
        [name |-> df.columns[i], id |-> df.columns[i],
         markdown |-> Contains(Lower(df.columns[i]), <<"l","i","n","k">>)]])

\* variation: only the rows without a missing cell are counted
TotalCompleteRows(df) ==
    Cardinality({r \in 1..Len(df.rows) :
                    \A i \in 1..Len(df.columns) : ~IsNA(df.rows[r][i])})

\* total_applications = len(df)
TotalApplications(df) == Len(df.rows)

(***************************************************************************)
(* Source reference and fetch endpoint.                                    *)
(***************************************************************************)
\* str.find(sub): the least position (from 1) where sub starts in s, 0 if none
Find(s, sub) ==
    LET at == {i \in 1..(Len(s) - Len(sub) + 1) : SubSeq(s, i, i + Len(sub) - 1) = sub}
    IN  IF at = {} THEN 0 ELSE CHOOSE i \in at : \A j \in at : i <= j

\* str.split(sep): the pieces between the occurrences of sep, found left to
\* right without overlap
RECURSIVE Split(_, _)
Split(s, sep) ==
    LET j == Find(s, sep)
    IN  IF j = 0 THEN <<s>>
        ELSE <<SubSeq(s, 1, j - 1)>> \o Split(SubSeq(s, j + Len(sep), Len(s)), sep)

Marker == <<"/", "d", "/">>

\* variation: the identifier is everything after the marker
ExtractRestOfUrl(sheet_url) ==
    LET parts == Split(sheet_url, Marker)
    IN  IF Len(parts) < 2 THEN [raised |-> TRUE, sheet_id |-> <<>>]
        ELSE [raised |-> FALSE, sheet_id |-> parts[2]]

\* sheet_url.split("/d/")[1].split("/")[0]; the index [1] raises IndexError
\* when the split has a single piece
ExtractSheetId(sheet_url) ==
    LET parts == Split(sheet_url, Marker)
    IN  IF Len(parts) < 2 THEN [raised |-> TRUE, sheet_id |-> <<>>]
        ELSE [raised |-> FALSE, sheet_id |-> Split(parts[2], <<"/">>)[1]]

\* f"https://docs.google.com/spreadsheets/d/{sheet_id}/export?format=csv"
CsvUrl(sheet_id) ==
    <<"https://docs.google.com/spreadsheets/d/">> \o sheet_id \o <<"/export?format=csv">>

\* the identifier under which the export endpoint serves `source`; the
\* endpoint of any other identifier answers with an error
SheetId == <<"a">>

\* the username of the dashboard whose side files the model holds
UserName == <<"u">>

\* dashboard_sheeturl_<username>.txt
NoUrlFile == [exists |-> FALSE, text |-> <<>>]
SavedUrl(sheet_url) == [exists |-> TRUE, text |-> sheet_url]

\* with open(f"dashboard_sheeturl_{username}.txt", "r") as f:
\*     sheet_url = f.read().strip()
ReadUrlFile(username, file) ==
    IF username = UserName /\ file.exists
    THEN [raised |-> FALSE, sheet_url |-> Strip(file.text)]
    ELSE [raised |-> TRUE, sheet_url |-> <<>>]

\* The head of build_dashboard_content's try block, up to the call of
\* pd.read_csv: app.py is given the sheet URL, main7.py the username, whose
\* saved URL it reads.  raised: an exception left the block before any fetch.
SourceRequest(v, arg, file) ==
    LET saved == IF v = "main7" THEN ReadUrlFile(arg, file)
                 ELSE [raised |-> FALSE, sheet_url |-> arg]
        id == ExtractSheetId(saved.sheet_url)
    IN  IF saved.raised \/ id.raised
        THEN [raised |-> TRUE, sheet_id |-> <<>>, csv_url |-> <<>>,
              sheet_url |-> saved.sheet_url]
        ELSE [raised |-> FALSE, sheet_id |-> id.sheet_id, csv_url |-> CsvUrl(id.sheet_id),
              sheet_url |-> saved.sheet_url]

\* pd.read_csv skips blank lines: the rows of a one-column sheet whose only
\* field is empty or white space
SkipBlankLines(sheet) ==
    IF Len(sheet.columns) # 1 THEN sheet
    ELSE [sheet EXCEPT !.rows =
             SelectSeq(sheet.rows, LAMBDA w : ~IsNA(w[1]) /\ Strip(w[1].s) # <<>>)]

\* df = pd.read_csv(csv_url) returned
FetchOk(sheet) ==
    [ok |-> TRUE, sheet |-> SkipBlankLines(sheet), called |-> TRUE,
     csv_url |-> CsvUrl(SheetId)]

\* pd.read_csv(csv_url) raised (no answer, or the endpoint's error answer)
FetchError(csv_url) ==
    [ok |-> FALSE, sheet |-> [columns |-> <<>>, rows |-> <<>>], called |-> TRUE,
     csv_url |-> csv_url]

FetchFailed == FetchError(CsvUrl(SheetId))

\* the build ended before it called pd.read_csv
NoFetch ==
    [ok |-> FALSE, sheet |-> [columns |-> <<>>, rows |-> <<>>], called |-> FALSE,
     csv_url |-> <<>>]

\* what pd.read_csv(csv_url) can return for a request: the sheet or an error
\* for the identifier of the source, an error for any other identifier
Fetches(rq, sheet) ==
    IF rq.raised THEN {NoFetch}
    ELSE IF rq.sheet_id = SheetId THEN {FetchOk(sheet), FetchError(rq.csv_url)}
    ELSE {FetchError(rq.csv_url)}

\* The body of build_dashboard_content's try block after the fetch returned:
\* every helper's result, and whether one of them raised.
Pipeline(fetch, v, file, order, ranking) ==
    LET df0 == NormalizeColumns(fetch.sheet)
        column_map == BuildColumnMap(v, file, df0)
        df1 == RewriteLinks(df0)
        status_col == get_column_if_exists(df1, StatusNames, column_map)
        success_rate == calculate_success_rate(df1, column_map)
        recent == get_recent_activity(df1, column_map)
        df == recent.df
        approved_count == count_status(df, ApprovedPatterns, column_map)
        interview_count == count_status(df, InterviewPatterns, column_map)
        rejected_count == count_status(df, RejectedPatterns, column_map)
        status_pie == create_status_pie(df, column_map)
        timeline_chart == create_timeline_chart(df, column_map, order)
        company_chart == create_company_distribution(df, column_map, ranking)
        options_raised == status_col # None /\ ~HasColumn(df, status_col)
        status_options ==
            IF status_col # None /\ HasColumn(df, status_col)
            THEN Unique(Column(df, status_col), 1, {})
            ELSE <<>>
    IN  [ran |-> TRUE,
         fetch |-> fetch,
         file |-> file,
         headers |-> df0.columns,
         status_col |-> status_col,
         date_col |-> get_column_if_exists(df1, DateNames, column_map),
         company_col |-> get_column_if_exists(df1, CompanyNames, column_map),
         link_cols |-> {c \in Range(df0.columns) : IsLinkColumn(c)},
         total_applications |-> TotalApplications(df),
         success_rate |-> success_rate,
         recent_activity |-> [label |-> recent.label, n |-> recent.n],
         approved_count |-> approved_count,
         interview_count |-> interview_count,
         rejected_count |-> rejected_count,
         status_pie |-> status_pie,
         timeline_chart |-> timeline_chart,
         company_chart |-> company_chart,
         status_options |-> status_options,
         rules |-> HighlightRules(status_col),
         columns |-> TableColumns(df),
         data |-> df.rows,
         raised |-> \/ ~fetch.ok
                    \/ success_rate.raised
                    \/ approved_count.raised
                    \/ interview_count.raised
                    \/ rejected_count.raised
                    \/ status_pie.raised
                    \/ company_chart.raised
                    \/ options_raised]

NotRun == [ran |-> FALSE]

NoContent == [kind |-> "none"]

\* except Exception as e: return html.Div(f"Error loading dashboard ...")
ErrorState == [kind |-> "error"]

\* variation: the table is filled from a frame shared between the builds, so
\* it shows what the source holds when the response is assembled
ViewModelSharedFrame(p) ==
    [kind |-> "vm",
     total_applications |-> p.total_applications,
     interview_count |-> p.interview_count.n,
     approved_count |-> p.approved_count.n,
     success_rate |-> p.success_rate.text,
     status_pie |-> [kind |-> p.status_pie.kind, msg |-> p.status_pie.msg,
                     entries |-> p.status_pie.entries],
     timeline_chart |-> p.timeline_chart,
     company_chart |-> [kind |-> p.company_chart.kind, msg |-> p.company_chart.msg,
                        entries |-> p.company_chart.entries],
     status_filter |-> StatusFilter(p.status_options),
     columns |-> IF source = p.fetch.sheet THEN p.columns
                 ELSE TableColumns(NormalizeColumns(source)),
     data |-> IF source = p.fetch.sheet THEN p.data
              ELSE RewriteLinks(NormalizeColumns(source)).rows,
     style_data_conditional |-> p.rules]

\* the Div build_dashboard_content returns for a pipeline that did not raise
ViewModel(p) ==
    [kind |-> "vm",
     total_applications |-> p.total_applications,
     interview_count |-> p.interview_count.n,
     approved_count |-> p.approved_count.n,
     success_rate |-> p.success_rate.text,
     status_pie |-> [kind |-> p.status_pie.kind, msg |-> p.status_pie.msg,
                     entries |-> p.status_pie.entries],
     timeline_chart |-> p.timeline_chart,
     company_chart |-> [kind |-> p.company_chart.kind, msg |-> p.company_chart.msg,
                        entries |-> p.company_chart.entries],
     status_filter |-> StatusFilter(p.status_options),
     columns |-> p.columns,
     data |-> p.data,
     style_data_conditional |-> p.rules]

\* variation: no except clause, the exception of a helper leaves the function
BuildWithoutHandler(p) == IF p.raised THEN [kind |-> "exception"] ELSE ViewModel(p)

\* what build_dashboard_content returns
build_dashboard_content(p) == IF p.raised THEN ErrorState ELSE ViewModel(p)

\* variation: a build that raised leaves the children as they were
KeepOnFailure(old, p) == IF p.raised THEN old ELSE build_dashboard_content(p)

\* variation: once the region shows the error message it keeps it
ErrorSticks(old, p) ==
    IF old.kind = "error" THEN old ELSE build_dashboard_content(p)

\* variation: the counter of applications is carried over from the children
\* the region showed before
AccumulateTotal(old, p) ==
    IF old.kind = "vm" /\ ~p.raised
    THEN [ViewModel(p) EXCEPT !.total_applications = @ + old.total_applications]
    ELSE build_dashboard_content(p)

\* update_dashboard_content returns the build's result as the new children of
\* 'dashboard-content', whatever they were before
NewContent(old, p) == build_dashboard_content(p)

(***************************************************************************)
(* The sheets the external source can hold.                                *)
(***************************************************************************)
HStatus == <<"S","t","a","t","u","s">>
HJobStatus == <<" ","j","o","b"," ","s","t","a","t","u","s"," ">>
HStatuses == <<"S","t","a","t","u","s","e","s">>
HDate == <<"D","a","t","e">>
HCompany == <<"C","o","m","p","a","n","y">>
HJobLink == <<"J","o","b"," ","L","i","n","k">>
HResume == <<"R","e","s","u","m","e">>

RawHeaders == {HStatus, HJobStatus, HStatuses, HDate, HCompany, HJobLink, HResume}

\* the field of a sheet row a header shows
FieldOf(h) ==
    CASE h \in {HStatus, HJobStatus} -> "status"
      [] h = HDate -> "date"
      [] h = HCompany -> "company"
      [] h \in {HJobLink, HResume} -> "link"
      [] OTHER -> "other"

VApproved == Str(<<"A","p","p","r","o","v","e","d">>)
VApplied == Str(<<"A","p","p","l","i","e","d">>)
VInterview == Str(<<"I","n","t","e","r","v","i","e","w">>)
VJan5 == Str(<<"2","0","2","4","-","0","1","-","0","5">>)
VJan2 == Str(<<"2","0","2","4","-","0","1","-","0","2">>)
VSoon == Str(<<"s","o","o","n">>)
VAcme == Str(<<"A","c","m","e">>)
VBeta == Str(<<"B","e","t","a">>)
VUrl == Str(<<"h","t","t","p",":","/","/","a">>)
VBlank == Str(<<" ">>)

RowPool ==
    { [status |-> VApproved, date |-> VJan5, company |-> VAcme, link |-> VUrl,
       other |-> VBeta],
      [status |-> NA, date |-> VSoon, company |-> NA, link |-> VBlank, other |-> NA] }

\* sequences over S of length lo..hi
SeqsOf(S, lo, hi) == UNION {[1..n -> S] : n \in lo..hi}

Distinct(seq) == \A i, j \in 1..Len(seq) : seq[i] = seq[j] => i = j

\* header rows whose normalised names are unique, as the data model requires
HeaderRows(maxCols) ==
    {hs \in SeqsOf(RawHeaders, 1, maxCols) :
        Distinct([i \in 1..Len(hs) |-> Lower(Strip(hs[i]))])}

Sheet(hs, ws) ==
    [columns |-> Tup(hs),
     rows |-> Tup([r \in 1..Len(ws) |-> Tup([i \in 1..Len(hs) |-> ws[r][FieldOf(hs[i])]])])]

BuildSheets ==
    {Sheet(hs, ws) : hs \in HeaderRows(MaxCols), ws \in SeqsOf(RowPool, 0, MaxRows)}

TimelineRow(st, d) == [status |-> st, date |-> d, company |-> NA, link |-> NA, other |-> NA]

TimelineRowPool ==
    { TimelineRow(VApplied, VJan5), TimelineRow(VApplied, VJan2),
      TimelineRow(VInterview, VJan2), TimelineRow(VInterview, VJan5),
      TimelineRow(NA, VJan2), TimelineRow(VApplied, VSoon) }

TimelineSheets ==
    {Sheet(<<HDate, HStatus>>, ws) : ws \in SeqsOf(TimelineRowPool, 0, MaxTimelineRows)}

\* the sheets the source of the refreshed instance moves between
SourceSheets ==
    LET full == <<HCompany, HStatus, HDate>>
        w1 == [status |-> VApproved, date |-> VJan5, company |-> VAcme,
               link |-> VUrl, other |-> NA]
        w2 == [status |-> VApplied, date |-> VJan2, company |-> VBeta,
               link |-> NA, other |-> NA]
    IN  { Sheet(full, <<w1, w2>>),
          Sheet(<<HCompany, HJobLink>>, <<w1>>) }

\* the alias file create_user_dashboard leaves for a sheet of this header row
AliasFile(hs) ==
    [exists |-> TRUE,
     rows |-> ColumnInfo(NormalizeColumns([columns |-> hs, rows |-> <<>>]))]

\* alias files of the header rows a sheet may have had at creation time
AliasFiles ==
    {NoFile, AliasFile(<<HStatus>>), AliasFile(<<HCompany>>),
     AliasFile(<<HCompany, HStatus, HDate>>)}

(***************************************************************************)
(* The dashboard instance.                                                 *)
(***************************************************************************)
Requests == 1..MaxInFlight

\* sheet_url: the sheet URL the request works from, once it has read it
Idle == [pc |-> "idle", fetch |-> NoFetch, sheet_url |-> <<>>]

InFlight == {r \in Requests : reqs[r].pc # "idle"}

NoPage == [kind |-> "none", arg |-> <<>>]

DashPrefix == <<"/","d","a","s","h","b","o","a","r","d","/">>

\* display_page's choice of page.  app.py: every path but "" and "/" is a
\* dashboard whose sheet URL is pathname[1:].  main7.py: a dashboard for
\* re.match(r'^/dashboard/([^/]+)$', pathname), the 404 text otherwise.
Route(v, pathname) ==
    IF pathname = <<>> \/ pathname = <<"/">> THEN [kind |-> "home", arg |-> <<>>]
    ELSE IF v = "app" THEN [kind |-> "dashboard", arg |-> Tail(pathname)]
    ELSE LET n == Len(DashPrefix)
             username == SubSeq(pathname, n + 1, Len(pathname))
         IN  IF /\ Len(pathname) > n
                /\ SubSeq(pathname, 1, n) = DashPrefix
                /\ \A i \in 1..Len(username) : username[i] # "/"
             THEN [kind |-> "dashboard", arg |-> username]
             ELSE [kind |-> "notfound", arg |-> <<>>]

\* the alias file build_dashboard_content(username) of main7.py opens
AliasFileOf(username) == IF username = UserName THEN colsFile ELSE NoFile

\* build_dashboard_content after pd.read_csv returned or raised, for the
\* dashboard named by arg
Build(fetch, arg) ==
    LET file == AliasFileOf(arg)
        df == RewriteLinks(NormalizeColumns(fetch.sheet))
        cm == BuildColumnMap(variant, file, df)
    IN  Pipeline(fetch, variant, file, SortOrder(df, cm, ties),
                 CompanyRanking(df, cm, ties))

\* variation: a trigger that arrives while a build is in flight is absorbed
CoalesceRefresh(rs, r, trigger) ==
    IF \E q \in DOMAIN rs : rs[q].pc # "idle"
    THEN [rs EXCEPT ![r] = [pc |-> "absorbed", fetch |-> NoFetch, sheet_url |-> <<>>]]
    ELSE [rs EXCEPT ![r] = [pc |-> "fetching", fetch |-> NoFetch, sheet_url |-> <<>>]]

\* update_dashboard_content runs for every trigger (n_clicks and n_intervals
\* are only printed): it calls build_dashboard_content, which starts its
\* fetch at once
StartRefresh(rs, r, trigger) ==
    [rs EXCEPT ![r] = [pc |-> "fetching", fetch |-> NoFetch, sheet_url |-> <<>>]]

\* display_page: the home page, the 404 text, or dashboard_layout, which
\* runs the first build while the page is served
DisplayPage ==
    /\ page.kind = "none"
    /\ LET route == Route(variant, path)
       IN  /\ page' = route
           /\ IF route.kind = "dashboard"
              THEN \E fetch \in Fetches(SourceRequest(variant, route.arg, urlFile), source) :
                     LET p == Build(fetch, route.arg)
                     IN  /\ content' = NewContent(content, p)
                         /\ last' = p
                         /\ everBuilt' = (everBuilt \/ ~p.raised)
              ELSE UNCHANGED <<content, last, everBuilt>>
    /\ UNCHANGED <<variant, source, colsFile, urlFile, reqs, path, formUrl, created, ties>>

\* a click on 'refresh-button' or a tick of 'auto-refresh' reaches the server
UpdateDashboardContent(r, trigger) ==
    /\ page.kind = "dashboard"
    /\ reqs[r].pc = "idle"
    /\ reqs' = StartRefresh(reqs, r, trigger)
    /\ UNCHANGED <<variant, source, colsFile, urlFile, content, last, everBuilt,
                   path, formUrl, page, created, ties>>

\* request r reaches pd.read_csv(csv_url), which returns the sheet or raises,
\* or leaves the try block before it
FetchReturns(r) ==
    /\ reqs[r].pc = "fetching"
    /\ LET rq == SourceRequest(variant, page.arg, urlFile)
       IN  \E fetch \in Fetches(rq, source) :
             reqs' = [reqs EXCEPT ![r] = [pc |-> "fetched", fetch |-> fetch,
                                          sheet_url |-> rq.sheet_url]]
    /\ UNCHANGED <<variant, source, colsFile, urlFile, content, last, everBuilt,
                   path, formUrl, page, created, ties>>

\* the rest of build_dashboard_content for request r, and the callback's
\* return: the result becomes the children of 'dashboard-content'
Respond(r) ==
    /\ reqs[r].pc = "fetched"
    /\ LET p == Build(reqs[r].fetch, page.arg)
       IN  /\ content' = NewContent(content, p)
           /\ last' = p
           /\ everBuilt' = (everBuilt \/ ~p.raised)
    /\ reqs' = [reqs EXCEPT ![r] = Idle]
    /\ UNCHANGED <<variant, source, colsFile, urlFile, path, formUrl, page, created, ties>>

\* the owner of the sheet edits it
SourceChange ==
    /\ \E s \in SourceSheets \ {source} : source' = s
    /\ UNCHANGED <<variant, colsFile, urlFile, content, reqs, last, everBuilt,
                   path, formUrl, page, created, ties>>

NotCreated == [kind |-> "none", called |-> FALSE, csv_url |-> <<>>]

\* How far create_user_dashboard gets with its three files before a write
\* raises: "none" (column_info.to_csv raised), "columns" (the columns file is
\* written, open or write of the URL file raised), "both" (both side files
\* are written, df.to_csv of the data file raised), "all" (nothing raised).
WriteOutcomes == {"none", "columns", "both", "all"}

\* what create_user_dashboard returns: the "Please enter both" text, the
\* "Dashboard created successfully!" card or the "Error Creating Dashboard"
\* card; with it, whether pd.read_csv was called and on which endpoint
CreateResult(url, fetch, written) ==
    IF url = <<>> THEN [kind |-> "missing", called |-> FALSE, csv_url |-> <<>>]
    ELSE IF fetch.ok /\ written = "all"
    THEN [kind |-> "created", called |-> TRUE, csv_url |-> fetch.csv_url]
    ELSE [kind |-> "error", called |-> fetch.called, csv_url |-> fetch.csv_url]

\* create_user_dashboard for UserName and the URL typed into the form: it
\* fetches the sheet and then writes the columns file, the URL file and the
\* data file, in this order, until a write raises
CreateUserDashboard ==
    /\ LET id == ExtractSheetId(formUrl)
           rq == [raised |-> formUrl = <<>> \/ id.raised, sheet_id |-> id.sheet_id,
                  csv_url |-> CsvUrl(id.sheet_id)]
       IN  \E fetch \in Fetches(rq, source), written \in WriteOutcomes :
             /\ created' = CreateResult(formUrl, fetch, written)
             /\ colsFile' = IF fetch.ok /\ written # "none"
                            THEN [exists |-> TRUE,
                                  rows |-> ColumnInfo(NormalizeColumns(fetch.sheet))]
                            ELSE colsFile
             /\ urlFile' = IF fetch.ok /\ written \in {"both", "all"}
                           THEN SavedUrl(formUrl) ELSE urlFile
    /\ UNCHANGED <<variant, source, content, reqs, last, everBuilt,
                   path, formUrl, page, ties>>

\* a URL of the source, and the path under which each variant serves the
\* dashboard made from it
GoodUrl == <<"/", "d", "/", "a">>

DashboardPath(v, url) == IF v = "app" THEN <<"/">> \o url ELSE DashPrefix \o UserName

TieRules == {"stable", "reverse"}

\* the tie rules that make a difference for a build of the sheet: both when
\* the sort or the ranking of the build meets equal keys, else one
TieRulesFor(v, file, sheet) ==
    LET df == RewriteLinks(NormalizeColumns(SkipBlankLines(sheet)))
        cm == BuildColumnMap(v, file, df)
    IN  IF \/ Cardinality(TimelineOrders(df, cm)) > 1
           \/ Cardinality(CompanyRankings(df, cm)) > 1
        THEN TieRules ELSE {"stable"}

\* before the first request
Fresh ==
    /\ content = NoContent
    /\ reqs = [r \in Requests |-> Idle]
    /\ last = NotRun
    /\ everBuilt = FALSE
    /\ page = NoPage
    /\ created = NotCreated

\* (the tie rule only matters inside one build: SpecBuild and SpecTimeline
\* run the builds under every rule)
Init ==
    /\ variant \in {"app", "main7"}
    /\ ties = "stable"
    /\ source \in SourceSheets
    /\ colsFile = NoFile
    /\ urlFile = SavedUrl(GoodUrl)
    /\ formUrl = GoodUrl
    /\ path = DashboardPath(variant, GoodUrl)
    /\ Fresh

Next ==
    \/ DisplayPage
    \/ \E r \in Requests, trigger \in {"click", "tick"} : UpdateDashboardContent(r, trigger)
    \/ \E r \in Requests : FetchReturns(r)
    \/ \E r \in Requests : Respond(r)
    \/ SourceChange
    \/ CreateUserDashboard

Spec == Init /\ [][Next]_vars

\* one build of each sheet of a family, under each variant and alias file
InitBuild ==
    /\ variant \in {"app", "main7"}
    /\ source \in BuildSheets
    /\ colsFile \in IF variant = "main7" THEN AliasFiles ELSE {NoFile}
    /\ ties \in TieRulesFor(variant, colsFile, source)
    /\ urlFile = SavedUrl(GoodUrl)
    /\ formUrl = GoodUrl
    /\ path = DashboardPath(variant, GoodUrl)
    /\ Fresh

SpecBuild == InitBuild /\ [][DisplayPage]_vars

InitTimeline ==
    /\ variant \in {"app", "main7"}
    /\ source \in TimelineSheets
    /\ colsFile = NoFile
    /\ ties \in TieRulesFor(variant, colsFile, source)
    /\ urlFile = SavedUrl(GoodUrl)
    /\ formUrl = GoodUrl
    /\ path = DashboardPath(variant, GoodUrl)
    /\ Fresh

SpecTimeline == InitTimeline /\ [][DisplayPage]_vars

\* the sheet URLs of SpecUrl: every string of "/", "d" and "a", the three
\* characters of the marker "/d/" and of SheetId
UrlChars == {"/", "d", "a"}

Urls == {Tup(u) : u \in SeqsOf(UrlChars, 0, MaxUrlLen)}

\* a new user: no side file yet, any URL typed into the form.  app.py serves
\* the dashboard under the URL itself, main7.py under the username.
InitUrl ==
    /\ variant \in {"app", "main7"}
    /\ ties = "stable"
    /\ source \in SourceSheets
    /\ colsFile = NoFile
    /\ urlFile = NoUrlFile
    /\ formUrl \in Urls
    /\ path = DashboardPath(variant, formUrl)
    /\ Fresh

NextUrl == CreateUserDashboard \/ DisplayPage

SpecUrl == InitUrl /\ [][NextUrl]_vars

\* the pathnames of SpecRoute
RoutePaths ==
    { <<>>, <<"/">>,
      DashPrefix \o UserName,                      \* /dashboard/u
      DashPrefix \o <<"v">>,                       \* /dashboard/v (no such user)
      DashPrefix,                                  \* /dashboard/
      SubSeq(DashPrefix, 1, Len(DashPrefix) - 1),  \* /dashboard
      DashPrefix \o UserName \o <<"/", "x">>,      \* /dashboard/u/x
      <<"/", "f", "o", "o">>,                      \* /foo
      <<"/">> \o GoodUrl }                         \* //d/a

\* a sheet whose Status column holds no value
StatusMissingSheet == Sheet(<<HDate, HStatus>>, <<TimelineRow(NA, VSoon)>>)

\* a browser asks for any of the pathnames, with or without side files of
\* the user, and refreshes the page it gets one request at a time
InitRoute ==
    /\ variant \in {"app", "main7"}
    /\ ties = "stable"
    /\ source \in SourceSheets \cup {StatusMissingSheet}
    /\ colsFile \in IF variant = "main7" THEN {NoFile, AliasFile(<<HStatus>>)} ELSE {NoFile}
    /\ urlFile \in IF variant = "main7" THEN {NoUrlFile, SavedUrl(GoodUrl)} ELSE {NoUrlFile}
    /\ formUrl \in {GoodUrl, <<>>, <<"a">>}
    /\ path \in RoutePaths
    /\ Fresh

NextRoute ==
    \/ DisplayPage
    \/ UpdateDashboardContent(1, "click")
    \/ FetchReturns(1)
    \/ Respond(1)
    \/ CreateUserDashboard

SpecRoute == InitRoute /\ [][NextRoute]_vars

\* the status texts of SpecStatus: one keyword, two keywords, a keyword of
\* the Approved counter only, a keyword in lower case, no value
VInterviewRejected ==
    Str(<<"I","n","t","e","r","v","i","e","w"," ","-"," ","R","e","j","e","c","t","e","d">>)
VAccepted == Str(<<"A","c","c","e","p","t","e","d">>)
VLowerApplied == Str(<<"a","p","p","l","i","e","d">>)

StatusTexts == {VApproved, VInterviewRejected, VAccepted, VLowerApplied, NA}

StatusRow(st) == [status |-> st, date |-> NA, company |-> VAcme, link |-> NA, other |-> st]

\* sheets of a company and a status column, under a header that is a Status
\* synonym and under one that is none
StatusSheets ==
    {Sheet(hs, ws) : hs \in {<<HCompany, HStatus>>, <<HCompany, HStatuses>>},
                     ws \in SeqsOf({StatusRow(st) : st \in StatusTexts}, 0, MaxStatusRows)}

InitStatus ==
    /\ variant \in {"app", "main7"}
    /\ source \in StatusSheets
    /\ colsFile = NoFile
    /\ ties \in TieRulesFor(variant, colsFile, source)
    /\ urlFile = SavedUrl(GoodUrl)
    /\ formUrl = GoodUrl
    /\ path = DashboardPath(variant, GoodUrl)
    /\ Fresh

SpecStatus == InitStatus /\ [][DisplayPage]_vars

\* sheets of a company and a status column whose rows name two companies
CompanyRow(c) == [status |-> VApplied, date |-> NA, company |-> c, link |-> NA, other |-> NA]

CompanySheets ==
    {Sheet(<<HCompany, HStatus>>, ws) :
        ws \in SeqsOf({CompanyRow(c) : c \in {VAcme, VBeta, NA}}, 0, MaxCompanyRows)}

InitCompany ==
    /\ variant \in {"app", "main7"}
    /\ source \in CompanySheets
    /\ colsFile = NoFile
    /\ ties \in TieRulesFor(variant, colsFile, source)
    /\ urlFile = SavedUrl(GoodUrl)
    /\ formUrl = GoodUrl
    /\ path = DashboardPath(variant, GoodUrl)
    /\ Fresh

SpecCompany == InitCompany /\ [][DisplayPage]_vars

\* sheets of a company column and a link-like column whose fields hold a
\* URL, a blank or nothing
LinkRow(l) == [status |-> NA, date |-> NA, company |-> VAcme, link |-> l, other |-> NA]

LinkSheets ==
    {Sheet(hs, ws) : hs \in {<<HCompany, HJobLink>>, <<HCompany, HResume>>},
                     ws \in SeqsOf({LinkRow(l) : l \in {VUrl, VBlank, NA}}, 0, MaxLinkRows)}

InitLinks ==
    /\ variant \in {"app", "main7"}
    /\ source \in LinkSheets
    /\ colsFile = NoFile
    /\ ties \in TieRulesFor(variant, colsFile, source)
    /\ urlFile = SavedUrl(GoodUrl)
    /\ formUrl = GoodUrl
    /\ path = DashboardPath(variant, GoodUrl)
    /\ Fresh

SpecLinks == InitLinks /\ [][DisplayPage]_vars

\* a second URL of the same sheet
GoodUrl2 == GoodUrl \o <<"/">>

\* the side files an earlier creation left: for a sheet that had the single
\* header Status, under GoodUrl
EarlierColsFile == AliasFile(<<HStatus>>)

EarlierUrlFile == SavedUrl(GoodUrl)

\* the user has no side files or those of an earlier creation, submits the
\* form again (with another URL of the sheet, no URL or a malformed one)
\* and refreshes the dashboard one request at a time
InitFiles ==
    /\ variant \in {"app", "main7"}
    /\ ties = "stable"
    /\ source \in SourceSheets
    /\ \/ colsFile = NoFile /\ urlFile = NoUrlFile
       \/ colsFile = EarlierColsFile /\ urlFile = EarlierUrlFile
    /\ formUrl \in {GoodUrl2, <<>>, <<"a">>}
    /\ path = DashboardPath(variant, GoodUrl)
    /\ Fresh

SpecFiles == InitFiles /\ [][NextRoute]_vars

(***************************************************************************)
(* Properties.  `last` is the record of the build that ended last; the     *)
(* properties compare what it returned with the sheet it fetched.          *)
(***************************************************************************)
\* the sheet the last build fetched, as the source delivered it
Raw == last.fetch.sheet

\* the last build got a sheet
Built == last.ran /\ last.fetch.ok

\* some header of the fetched sheet, trimmed and lower-cased, is one of names
HeaderMatches(names) ==
    \E i \in 1..Len(Raw.columns), k \in 1..Len(names) :
        Lower(Strip(Raw.columns[i])) = names[k]

\* the header, trimmed and lower-cased, contains one of the link keywords
LinkLikeHeader(h) ==
    \E k \in 1..Len(keywords) : Contains(Lower(Strip(h)), keywords[k])

\* the positions of the fetched sheet's columns whose normalised header is col
BoundTo(col) == {i \in 1..Len(last.headers) : last.headers[i] = col}

\* the fetched cells of the column a role is bound to (no cells when the
\* fetched sheet has no such column)
RawCells(col) ==
    IF BoundTo(col) = {} THEN <<>>
    ELSE LET i == CHOOSE j \in BoundTo(col) : TRUE
         IN  [r \in 1..Len(Raw.rows) |-> Raw.rows[r][i]]

\* C1: in both variants a role resolves exactly when some header of the
\* fetched sheet, trimmed and lower-cased, equals one of the role's synonyms
\* (for Link-like: contains one of the keywords).
C1_RolesResolveFromFetchedHeaders ==
    Built =>
        /\ (last.status_col # None) <=> HeaderMatches(StatusNames)
        /\ (last.date_col # None) <=> HeaderMatches(DateNames)
        /\ (last.company_col # None) <=> HeaderMatches(CompanyNames)
        /\ last.link_cols =
              {Lower(Strip(Raw.columns[i])) :
                  i \in {j \in 1..Len(Raw.columns) : LinkLikeHeader(Raw.columns[j])}}

\* the columns of the table whose every cell is the link rewrite of the
\* fetched cell
RewrittenColumns ==
    {i \in 1..Len(Raw.columns) :
        /\ Len(Raw.rows) > 0
        /\ \A r \in 1..Len(Raw.rows) : content.data[r][i] = LinkCell(Raw.rows[r][i])}

\* C2 as stated: each of Status, Date, Company and Link-like is bound to at
\* most one header of the sheet.
C2_EveryRoleBoundToOneHeader ==
    content.kind = "vm" =>
        /\ \A col \in {last.status_col, last.date_col, last.company_col} :
              Cardinality(BoundTo(col)) <= 1
        /\ Cardinality(last.link_cols) <= 1
        /\ Cardinality(RewrittenColumns) <= 1

\* C2 amended: Status, Date and Company are each bound to at most one header;
\* Link-like is bound to every header that contains a keyword, and every cell
\* of every such column is rewritten.
C2_ExactRolesOneHeaderLinkRoleAll ==
    content.kind = "vm" =>
        /\ \A col \in {last.status_col, last.date_col, last.company_col} :
              Cardinality(BoundTo(col)) <= 1
        /\ \A i \in 1..Len(Raw.columns) :
              LinkLikeHeader(Raw.columns[i]) =>
                  /\ last.headers[i] \in last.link_cols
                  /\ \A r \in 1..Len(Raw.rows) :
                        content.data[r][i] = LinkCell(Raw.rows[r][i])

\* C2 witness: a ViewModel of a sheet with rows and two link-like headers,
\* both columns rewritten
C2_TwoLinkColumnsRewritten ==
    /\ content.kind = "vm"
    /\ Cardinality(last.link_cols) = 2
    /\ Cardinality(RewrittenColumns) = 2

\* C3: the total-applications counter of a ViewModel is the number of rows of
\* the fetched sheet, whatever roles resolve.
C3_TotalIsRowCount ==
    content.kind = "vm" => content.total_applications = Len(Raw.rows)

\* C3 witness: a ViewModel of a sheet with rows, one of them with a missing
\* cell, and no Status column
C3_RowsCountedWithoutStatus ==
    /\ content.kind = "vm"
    /\ last.status_col = None
    /\ content.total_applications = 2
    /\ \E r \in 1..Len(Raw.rows), i \in 1..Len(Raw.columns) : IsNA(Raw.rows[r][i])

\* the rows of the fetched sheet whose status, lower-cased, contains a
\* success keyword
SuccessRows ==
    LET cells == RawCells(last.status_col)
    IN  {r \in 1..Len(cells) :
            ~IsNA(cells[r]) /\ ContainsAny(Lower(cells[r].s), SuccessPatterns)}

\* C4: the success rate is "N/A" when Status does not resolve, "0%" when it
\* resolves and the sheet has no rows, and otherwise the share of success
\* rows as a percentage rounded to a nearest integer.
C4_SuccessRateContract ==
    (Built /\ (last.status_col = None \/ BoundTo(last.status_col) # {})) =>
        LET rate == last.success_rate
            total == Len(Raw.rows)
        IN  IF last.status_col = None THEN rate = Returned(<<"N","/","A">>)
            ELSE IF total = 0 THEN rate = Returned(<<"0","%">>)
            ELSE /\ ~rate.raised
                 /\ \E n \in 0..100 :
                       /\ rate.text = Digits(n) \o <<"%">>
                       /\ 2 * n * total - 200 * Cardinality(SuccessRows) <= total
                       /\ 200 * Cardinality(SuccessRows) - 2 * n * total <= total

\* the date a fetched cell parses to (0 when it does not parse)
RawDate(c) == ToDatetime(c).n

\* the rows of the fetched sheet whose date parses and whose status is present
EligibleRows ==
    LET d == RawCells(last.date_col)
        s == RawCells(last.status_col)
    IN  {r \in 1..Len(Raw.rows) : ToDatetime(d[r]).t = "ts" /\ ~IsNA(s[r])}

\* C5: the points of the timeline are in ascending Date order; they are the
\* rows whose date parsed and whose status is present, and no others; and
\* along the points of one status the Count never decreases.
C5_TimelineSortedFilteredCumulative ==
    (content.kind = "vm" /\ content.timeline_chart.kind = "line") =>
        LET pts == content.timeline_chart.points
            d == RawCells(last.date_col)
            s == RawCells(last.status_col)
        IN  /\ \A i, j \in 1..Len(pts) : i < j => pts[i].Date <= pts[j].Date
            /\ \A i, j \in 1..Len(pts) :
                  (i < j /\ pts[i].Status = pts[j].Status) => pts[i].Count <= pts[j].Count
            /\ \A k \in 1..Len(pts) :
                  Cardinality({i \in 1..Len(pts) :
                                  pts[i].Date = pts[k].Date /\ pts[i].Status = pts[k].Status})
                  = Cardinality({r \in EligibleRows :
                                  RawDate(d[r]) = pts[k].Date /\ s[r] = pts[k].Status})
            /\ Len(pts) = Cardinality(EligibleRows)

\* C5 witness: three fetched rows, the first with the later date, one row
\* left out; the two points of one status come out in date order with
\* Counts 1 and 2
C5_UnsortedRowsWithDroppedRow ==
    /\ content.kind = "vm"
    /\ content.timeline_chart.kind = "line"
    /\ Len(Raw.rows) = 3
    /\ LET pts == content.timeline_chart.points
       IN  /\ Len(pts) = 2
           /\ pts[1].Status = pts[2].Status
           /\ pts[1].Date < pts[2].Date
           /\ pts[1].Count = 1 /\ pts[2].Count = 2
           /\ 1 \in EligibleRows
           /\ RawDate(RawCells(last.date_col)[1]) = pts[2].Date

\* C6: the company distribution has at most ten companies, and it is the
\* empty placeholder exactly when Company does not resolve or no fetched row
\* has a company value.
C6_CompanyDistributionContract ==
    Built =>
        LET chart == last.company_chart
            cells == RawCells(last.company_col)
            noValue == \A r \in 1..Len(cells) : IsNA(cells[r])
        IN  /\ ~chart.raised
            /\ Len(chart.entries) <= TopN
            /\ (chart.kind = "empty") <=> (last.company_col = None \/ noValue)
            /\ chart.kind = "empty" => (chart.entries = <<>> /\ chart.msg # "")
            /\ chart.kind # "empty" => (chart.kind = "bar" /\ Len(chart.entries) >= 1)

PiePopulated == content.status_pie.kind = "pie"

RulesActive ==
    \E k \in 1..Len(content.style_data_conditional) :
        content.style_data_conditional[k].active

FilterPopulated == content.status_filter.kind = "dropdown"

\* when no header matches a Status synonym the pie is the placeholder, no
\* highlight rule is active and the filter is the text without options
StatusFeaturesAbsent ==
    /\ content.status_pie.kind = "empty"
    /\ content.status_pie.msg # ""
    /\ ~RulesActive
    /\ content.status_filter =
          [kind |-> "text", msg |-> "Status filtering not available", options |-> <<>>]

\* C7 as stated: without a Status header the pie, the highlight rules and the
\* filter are all absent, and none of the three is populated while another
\* is in placeholder mode.
C7_StatusFeaturesAllOrNone ==
    content.kind = "vm" =>
        /\ ~HeaderMatches(StatusNames) => StatusFeaturesAbsent
        /\ PiePopulated <=> RulesActive
        /\ RulesActive <=> FilterPopulated

\* C7 amended: without a Status header all three are absent; the pie and the
\* filter are populated together, and then the rules are active; the rules
\* may be active while the pie and the filter are placeholders.
C7_AbsentTogetherRulesFollowRole ==
    content.kind = "vm" =>
        /\ ~HeaderMatches(StatusNames) => StatusFeaturesAbsent
        /\ PiePopulated <=> FilterPopulated
        /\ PiePopulated => RulesActive
        /\ RulesActive <=> (last.status_col # None)

\* C7 witness: a ViewModel of a sheet with rows and no Status header, with
\* all three absent
C7_NoStatusHeaderAllAbsent ==
    /\ content.kind = "vm"
    /\ Len(Raw.rows) > 0
    /\ ~HeaderMatches(StatusNames)
    /\ StatusFeaturesAbsent

\* C8 as stated: a trigger that arrives while a refresh of the instance is in
\* flight starts no second update cycle, so at most one is in flight.
C8_OneUpdateCycleInFlight == Cardinality(InFlight) <= 1

\* C8 amended: every trigger that reaches the server starts a build of its
\* own at once, whatever else is in flight.
C8_EveryTriggerStartsItsBuild ==
    [][\A r \in Requests :
          (reqs[r].pc = "idle" /\ reqs'[r] # reqs[r]) => reqs'[r].pc = "fetching"]_vars

\* C8 witness: two builds of the instance are fetching at the same time
C8_TwoBuildsFetching ==
    Cardinality({r \in Requests : reqs[r].pc = "fetching"}) >= 2

\* C9 as stated: a refresh that fails leaves the ViewModel on display, so once
\* a ViewModel has been rendered the content stays a ViewModel.
C9_FailedRefreshKeepsViewModel == everBuilt => content.kind = "vm"

\* C9 amended: the content is the result of the build that ended last: the
\* error message when it raised, its ViewModel otherwise.
C9_ContentIsLastBuildsResult ==
    /\ (content.kind = "none") <=> ~last.ran
    /\ last.ran => ((content.kind = "error") <=> last.raised)
    /\ last.ran => ((content.kind = "vm") <=> ~last.raised)

\* C9 witness: a ViewModel was rendered earlier and a refresh whose fetch
\* failed has put the error message in its place
C9_ErrorReplacedViewModel ==
    /\ everBuilt
    /\ content.kind = "error"
    /\ last.ran /\ ~last.fetch.ok

\* the alias files create_user_dashboard can have left for the instance
InstanceFiles ==
    {NoFile} \cup {[exists |-> TRUE, rows |-> ColumnInfo(NormalizeColumns(s))] :
                      s \in SourceSheets}

\* every build of one fetch of the source that did not raise
SingleFetchBuilds ==
    LET Builds(s, v, f) ==
            LET fetch == FetchOk(s)
                df == RewriteLinks(NormalizeColumns(fetch.sheet))
                cm == BuildColumnMap(v, f, df)
            IN  {Pipeline(fetch, v, f, order, ranking) :
                    order \in TimelineOrders(df, cm),
                    ranking \in CompanyRankings(df, cm)}
        all == UNION {Builds(c[1], c[2], c[3]) :
                        c \in SourceSheets \X {"app", "main7"} \X InstanceFiles}
    IN  {p \in all : ~p.raised}

\* C10: the content is the error state or one complete ViewModel whose
\* counters, charts, filter and table all come from the rows of one fetch.
C10_ViewModelFromOneFetch ==
    /\ content.kind \in {"none", "error", "vm"}
    /\ content.kind = "vm" =>
          /\ DOMAIN content =
                {"kind", "total_applications", "interview_count", "approved_count",
                 "success_rate", "status_pie", "timeline_chart", "company_chart",
                 "status_filter", "columns", "data", "style_data_conditional"}
          /\ \E p \in SingleFetchBuilds :
                /\ content.total_applications = p.total_applications
                /\ content.interview_count = p.interview_count.n
                /\ content.approved_count = p.approved_count.n
                /\ content.success_rate = p.success_rate.text
                /\ content.status_pie.entries = p.status_pie.entries
                /\ content.timeline_chart = p.timeline_chart
                /\ content.company_chart.entries = p.company_chart.entries
                /\ content.status_filter.options = p.status_options
                /\ content.columns = p.columns
                /\ content.data = p.data

\* C10 witness: a ViewModel is on display while the source has moved on and
\* another build holds a fetch of the newer sheet
C10_ViewModelBesideNewerFetch ==
    /\ content.kind = "vm"
    /\ source # last.fetch.sheet
    /\ \E r \in Requests :
          /\ reqs[r].pc = "fetched"
          /\ reqs[r].fetch.ok
          /\ reqs[r].fetch.sheet = source

\* ---- C11 ----
MarkerAt(s, i) == i + 2 <= Len(s) /\ SubSeq(s, i, i + 2) = Marker

HasMarker(s) == \E i \in 1..Len(s) : MarkerAt(s, i)

\* the text between the first "/d/" of s and the next "/", or the end of s
IdentifierOf(s) ==
    LET i == CHOOSE k \in 1..Len(s) : MarkerAt(s, k) /\ \A j \in 1..(k - 1) : ~MarkerAt(s, j)
        rest == SubSeq(s, i + 3, Len(s))
        stops == {k \in 1..Len(rest) : rest[k] = "/"}
    IN  IF stops = {} THEN rest
        ELSE SubSeq(rest, 1, (CHOOSE k \in stops : \A j \in stops : k <= j) - 1)

\* the source reference a build starting in this state works from, if it
\* finds one: app.py has it in the path, main7.py in the saved URL file
HasReference(arg) == variant = "app" \/ (arg = UserName /\ urlFile.exists)

Reference(arg) == IF variant = "app" THEN arg ELSE Strip(urlFile.text)

FetchFollowsReference(fetch, arg) ==
    HasReference(arg) =>
        IF HasMarker(Reference(arg))
        THEN fetch.called /\ fetch.csv_url = CsvUrl(IdentifierOf(Reference(arg)))
        ELSE ~fetch.called

\* C11: every step that composes a fetch endpoint (create_user_dashboard, the
\* first build of display_page, the fetch of a refresh) composes it from the
\* identifier between the first "/d/" of the source reference and the next
\* "/" (or the end); when the reference has no "/d/", the step fetches
\* nothing, returns an inline error message and, in create_user_dashboard,
\* leaves both side files as they were.
C11_EndpointFromFirstMarker ==
    [][ /\ (created' # created \/ colsFile' # colsFile \/ urlFile' # urlFile) =>
             IF HasMarker(formUrl)
             THEN /\ created'.called
                  /\ created'.csv_url = CsvUrl(IdentifierOf(formUrl))
             ELSE /\ created'.kind \in {"error", "missing"}
                  /\ ~created'.called
                  /\ colsFile' = colsFile
                  /\ urlFile' = urlFile
        /\ (page.kind = "none" /\ page'.kind = "dashboard") =>
             /\ FetchFollowsReference(last'.fetch, page'.arg)
             /\ (HasReference(page'.arg) /\ ~HasMarker(Reference(page'.arg)))
                    => content' = ErrorState
        /\ \A r \in Requests :
             (reqs[r].pc = "fetching" /\ reqs'[r].pc = "fetched") =>
                 FetchFollowsReference(reqs'[r].fetch, page.arg)
      ]_vars

\* a dashboard was created and built from a URL that goes on after the
\* identifier
C11_CreatedFromUrlWithTrailingPath ==
    /\ created.kind = "created"
    /\ HasMarker(formUrl)
    /\ Len(IdentifierOf(formUrl)) + 3 < Len(formUrl)
    /\ formUrl[1] = "/"
    /\ last.ran /\ last.fetch.ok
    /\ content.kind = "vm"

\* ---- C12 ----
\* the dashboard identifier a pathname names, if it names one: main7.py
\* serves the dashboard of a user under /dashboard/<username>, app.py the
\* dashboard of a sheet under "/" followed by the sheet's URL
NamesDashboard(pathname) ==
    IF variant = "main7"
    THEN /\ Len(pathname) > Len(DashPrefix)
         /\ SubSeq(pathname, 1, Len(DashPrefix)) = DashPrefix
         /\ \A i \in (Len(DashPrefix) + 1)..Len(pathname) : pathname[i] # "/"
    ELSE /\ Len(pathname) > 1
         /\ pathname[1] = "/"
         /\ HasMarker(Tail(pathname))

NamedDashboard(pathname) ==
    IF variant = "main7" THEN SubSeq(pathname, Len(DashPrefix) + 1, Len(pathname))
    ELSE Tail(pathname)

\* C12: once display_page has answered, an empty path or "/" got the home
\* page, a path that names a dashboard identifier got that identifier's
\* dashboard, and every other path got the not-found response, with no
\* build and no fetch ever started for it.
C12_HomeDashboardOrNotFound ==
    page.kind # "none" =>
        IF path = <<>> \/ path = <<"/">> THEN page.kind = "home"
        ELSE IF NamesDashboard(path)
        THEN page.kind = "dashboard" /\ page.arg = NamedDashboard(path)
        ELSE /\ page.kind = "notfound"
             /\ ~last.ran
             /\ \A r \in Requests : reqs[r].pc = "idle"

\* ---- C13 ----
\* the steps of a build: display_page serves the dashboard, the fetch of a
\* refresh returns, a refresh ends
DisplayStep == page.kind = "none" /\ page'.kind = "dashboard"

FetchStep(r) == reqs[r].pc = "fetching" /\ reqs'[r].pc = "fetched"

RespondStep(r) == reqs[r].pc = "fetched" /\ reqs'[r].pc = "idle"

UrlFileReadable(arg) == arg = UserName /\ urlFile.exists

\* the result of the build of a fetch with the alias mapping derived from
\* the fetched headers
FreshContent(fetch) ==
    LET df == RewriteLinks(NormalizeColumns(fetch.sheet))
        cm == FreshColumnMap(df)
    IN  build_dashboard_content(
            Pipeline(fetch, "app", NoFile, SortOrder(df, cm, ties), CompanyRanking(df, cm, ties)))

FreshRoles(p) ==
    LET df == NormalizeColumns(p.fetch.sheet)
        cm == FreshColumnMap(df)
    IN  /\ p.status_col = get_column_if_exists(df, StatusNames, cm)
        /\ p.date_col = get_column_if_exists(df, DateNames, cm)
        /\ p.company_col = get_column_if_exists(df, CompanyNames, cm)

\* C13 (as the code has it): in main7.py a build that cannot read the alias
\* file derives the alias mapping from the fetched headers and returns what
\* that mapping gives; a build that cannot read the saved-URL file fetches
\* nothing and returns the error message.
C13_AliasFallbackUrlFileRequired ==
    [][ variant = "main7" =>
         /\ DisplayStep =>
              /\ ~UrlFileReadable(page'.arg) =>
                     (~last'.fetch.called /\ content' = ErrorState)
              /\ (last'.fetch.ok /\ ~AliasFileOf(page'.arg).exists) =>
                     (FreshRoles(last') /\ content' = FreshContent(last'.fetch))
         /\ \A r \in Requests :
              /\ (FetchStep(r) /\ ~UrlFileReadable(page.arg)) => ~reqs'[r].fetch.called
              /\ (RespondStep(r) /\ ~reqs[r].fetch.called) => content' = ErrorState
              /\ (RespondStep(r) /\ reqs[r].fetch.ok /\ ~AliasFileOf(page.arg).exists) =>
                     (FreshRoles(last') /\ content' = FreshContent(reqs[r].fetch))
      ]_vars

\* the dashboard of the user was asked for while the saved-URL file was
\* missing: nothing was fetched and the page shows the error message
C13_NoUrlFileNoFetchErrorState ==
    /\ variant = "main7"
    /\ page.kind = "dashboard" /\ page.arg = UserName
    /\ ~urlFile.exists
    /\ last.ran /\ ~last.fetch.called
    /\ content = ErrorState

\* C13 (as stated): in main7.py a build that cannot read one of the side
\* files still fetches the sheet, and when the fetch succeeds it returns what
\* the alias mapping derived from the fetched headers gives.
C13_SideFileFailureNeverFailsRefresh ==
    [][ variant = "main7" =>
         /\ (DisplayStep /\ (~UrlFileReadable(page'.arg) \/ ~AliasFileOf(page'.arg).exists)) =>
              /\ last'.fetch.called
              /\ last'.fetch.ok => content' = FreshContent(last'.fetch)
         /\ \A r \in Requests :
              (FetchStep(r) /\ (~UrlFileReadable(page.arg) \/ ~AliasFileOf(page.arg).exists)) =>
                  reqs'[r].fetch.called
      ]_vars

\* ---- C14 ----
\* C14: in a ViewModel every table cell of a column that is not Link-like,
\* the resolved Date column included, is the fetched cell unchanged.
C14_NonLinkCellsHoldFetchedText ==
    content.kind = "vm" =>
        \A i \in 1..Len(Raw.columns) :
            ~LinkLikeHeader(Raw.columns[i]) =>
                \A r \in 1..Len(Raw.rows) : content.data[r][i] = Raw.rows[r][i]

\* ---- C15 ----
\* C15: whatever the path, the URL, the fetch outcome and the sheet, each of
\* the three callbacks returns something to render: display_page a page,
\* create_user_dashboard one of its three messages, and every build (of
\* display_page or update_dashboard_content) a ViewModel or, when anything
\* raised on the way, the inline error message.
C15_HandlersReturnRenderable ==
    /\ page.kind \in {"none", "home", "dashboard", "notfound"}
    /\ page.kind = "dashboard" => last.ran
    /\ created.kind \in {"none", "missing", "created", "error"}
    /\ content.kind \in {"none", "vm", "error"}
    /\ last.ran => (content.kind = "error" <=> last.raised)

\* a helper raised on the cells of a fetched sheet and the page shows the
\* message; a creation failed and the form shows the message
C15_HelperRaisedMessageShown ==
    /\ last.ran /\ last.fetch.ok /\ last.raised
    /\ page.kind = "dashboard"
    /\ content = ErrorState
    /\ created.kind = "error"

\* ---- C16 ----
\* a refresh has fetched the table the build that ended last had fetched,
\* and the alias file is the one that build read
RepeatsLastBuild(r) ==
    /\ reqs[r].pc = "fetched"
    /\ last.ran
    /\ reqs[r].fetch = last.fetch
    /\ AliasFileOf(page.arg) = last.file

CurrentAliases(file) ==
    [exists |-> TRUE,
     rows |-> {a \in file.rows : a.original \in Range(last.headers)}]

\* what the build shows when the roles of stale aliases count as absent
StaleAsAbsent ==
    LET file == CurrentAliases(last.file)
        df == RewriteLinks(NormalizeColumns(last.fetch.sheet))
        cm == BuildColumnMap("main7", file, df)
    IN  build_dashboard_content(
            Pipeline(last.fetch, "main7", file, SortOrder(df, cm, ties),
                     CompanyRanking(df, cm, ties)))

\* C17: in main7.py a build that reads a persisted alias table shows what it
\* would show if the aliases whose header is not among the fetched headers
\* did not exist: the same counters and charts (a placeholder where the
\* role is gone), and no error state because of a stale alias.
C17_StaleAliasTreatedAsAbsent ==
    (variant = "main7" /\ Built /\ last.file.exists) =>
        LET expected == StaleAsAbsent
        IN  /\ content.kind = expected.kind
            /\ content.kind = "vm" =>
                 /\ content.total_applications = expected.total_applications
                 /\ content.success_rate = expected.success_rate
                 /\ content.status_pie = expected.status_pie
                 /\ content.company_chart = expected.company_chart
                 /\ content.status_filter = expected.status_filter
                 /\ content.timeline_chart.kind = expected.timeline_chart.kind

\* ---- C18 ----
\* the last build got a sheet and derived the alias mapping from its headers
FreshlyMapped == Built /\ (variant = "app" \/ ~last.file.exists)

\* C18: when Status resolves to a fetched column whose every cell is missing
\* (the alias mapping being the one of the fetch), the build still returns a
\* ViewModel: the total is the row count and the status pie is the
\* placeholder.
C18_UnclassifiableStatusStillViewModel ==
    (/\ FreshlyMapped
     /\ last.status_col # None
     /\ BoundTo(last.status_col) # {}
     /\ \A r \in 1..Len(Raw.rows) : IsNA(RawCells(last.status_col)[r])) =>
        /\ content.kind = "vm"
        /\ content.total_applications = Len(Raw.rows)
        /\ content.status_pie.kind = "empty"

\* ---- C19 ----
\* the positions of the fetched headers that, trimmed and lower-cased, equal
\* the k-th synonym
MatchesOf(names, k) ==
    {i \in 1..Len(Raw.columns) : Lower(Strip(Raw.columns[i])) = names[k]}

\* the header bound when the synonym list decides: the match of the earliest
\* synonym that has one
BySynonymOrder(names) ==
    LET ks == {k \in 1..Len(names) : MatchesOf(names, k) # {}}
    IN  IF ks = {} THEN None
        ELSE names[CHOOSE k \in ks : \A j \in ks : k <= j]

\* the header bound when the sheet decides: the first header that matches
\* any synonym
ByHeaderOrder(names) ==
    LET is == UNION {MatchesOf(names, k) : k \in 1..Len(names)}
    IN  IF is = {} THEN None
        ELSE Lower(Strip(Raw.columns[CHOOSE i \in is : \A j \in is : i <= j]))

C20_MarkdownIffLinkLike ==
    content.kind = "vm" =>
        /\ Len(content.columns) = Len(Raw.columns)
        /\ \A i \in 1..Len(Raw.columns) :
              /\ content.columns[i].id = Lower(Strip(Raw.columns[i]))
              /\ content.columns[i].markdown <=> LinkLikeHeader(Raw.columns[i])

\* ---- C21 ----
HighlightWords ==
    << <<"A","p","p","r","o","v","e","d">>,
       <<"S","h","o","r","t","l","i","s","t","e","d">>,
       <<"I","n","t","e","r","v","i","e","w">>,
       <<"A","p","p","l","i","e","d">>,
       <<"R","e","j","e","c","t","e","d">> >>

HighlightColours == <<"#d4edda", "#fff3cd", "#d1ecf1", "#e2e3e5", "#f8d7da">>

\* the fetched status text of table row r (NA when Status is bound to no
\* fetched column)
RawStatus(r) ==
    IF BoundTo(last.status_col) = {} THEN NA ELSE RawCells(last.status_col)[r]

\* the rules, by position in the fixed order, whose keyword is a substring
\* of the fetched status text of row r
KeywordsIn(r) ==
    {k \in 1..5 : RawStatus(r).t = "str" /\ Contains(RawStatus(r).s, HighlightWords[k])}

\* the colour the table gives row r of the ViewModel
ShownColour(r) ==
    RowColour(content.style_data_conditional, content.columns, content.data[r])

\* C21 (as the code has it): with Status resolved the table gets the five
\* rules in the order Approved, Shortlisted, Interview, Applied, Rejected; a
\* row takes the colour of the rule listed last among those whose keyword is
\* a substring of its raw status text, and no colour when there is none.
\* With Status not resolved no row has a colour.
C21_LastMatchingRuleColours ==
    content.kind = "vm" =>
        /\ last.status_col # None =>
              \A k \in 1..5 :
                  /\ content.style_data_conditional[k].contains = HighlightWords[k]
                  /\ content.style_data_conditional[k].backgroundColor = HighlightColours[k]
        /\ \A r \in 1..Len(content.data) :
              ShownColour(r) =
                  IF last.status_col = None \/ KeywordsIn(r) = {} THEN ""
                  ELSE HighlightColours[CHOOSE k \in KeywordsIn(r) : \A j \in KeywordsIn(r) : j <= k]

\* a row whose status holds two keywords is shown in the colour of Rejected
C21_TwoKeywordsLaterRuleShown ==
    /\ content.kind = "vm"
    /\ \E r \in 1..Len(content.data) :
          /\ KeywordsIn(r) = {3, 5}
          /\ ShownColour(r) = HighlightColours[5]

\* C21 (as stated): a row takes the colour of the first rule, in the fixed
\* order, whose keyword is a substring of its raw status text, and no colour
\* when there is none or when Status is not resolved.
C21_FirstMatchingRuleColours ==
    content.kind = "vm" =>
        \A r \in 1..Len(content.data) :
            ShownColour(r) =
                IF last.status_col = None \/ KeywordsIn(r) = {} THEN ""
                ELSE HighlightColours[CHOOSE k \in KeywordsIn(r) : \A j \in KeywordsIn(r) : k <= j]

\* ---- C22 ----
\* the columns file a creation writes for the sheet the source holds
ColsFileOf(sheet) ==
    [exists |-> TRUE, rows |-> ColumnInfo(NormalizeColumns(SkipBlankLines(sheet)))]

\* In SpecFiles a creation is told by what it writes: the earlier one wrote
\* EarlierUrlFile and EarlierColsFile, a creation of the behaviour writes
\* formUrl and the columns of the source.
\* C22: while no creation has failed, a refresh of main7.py that has read
\* the URL file and is about to read the columns file reads a pair that one
\* creation wrote.
C22_RefreshReadsFilesOfOneCreation ==
    (variant = "main7" /\ created.kind # "error") =>
        \A r \in Requests :
            (reqs[r].pc = "fetched" /\ reqs[r].fetch.called /\ colsFile.exists) =>
                \/ /\ reqs[r].sheet_url = Strip(EarlierUrlFile.text)
                   /\ colsFile = EarlierColsFile
                \/ /\ reqs[r].sheet_url = Strip(formUrl)
                   /\ colsFile = ColsFileOf(source)

\* ---- C23 ----
\* some fetched cell of the column the role is bound to holds a value
HasValue(col) ==
    col # None /\ \E r \in 1..Len(RawCells(col)) : ~IsNA(RawCells(col)[r])

\* C23: a ViewModel has its three charts, each populated or a placeholder
\* with a message; the company chart is populated exactly when Company
\* resolves and some row has a company, the pie exactly when Status resolves
\* and some row has a status, and the timeline only when Date and Status
\* both resolve.
C23_ThreeChartsEachOnItsOwnRoles ==
    content.kind = "vm" =>
        /\ {"status_pie", "timeline_chart", "company_chart"} \subseteq DOMAIN content
        /\ content.status_pie.kind \in {"pie", "empty"}
        /\ content.timeline_chart.kind \in {"line", "empty"}
        /\ content.company_chart.kind \in {"bar", "empty"}
        /\ content.status_pie.kind = "empty" => content.status_pie.msg # ""
        /\ content.timeline_chart.kind = "empty" => content.timeline_chart.msg # ""
        /\ content.company_chart.kind = "empty" => content.company_chart.msg # ""
        /\ content.company_chart.kind = "bar" <=> HasValue(last.company_col)
        /\ content.status_pie.kind = "pie" <=> HasValue(last.status_col)
        /\ content.timeline_chart.kind = "line" =>
              (last.date_col # None /\ last.status_col # None)

\* the company chart is drawn for a sheet without Status and Date
C23_CompanyChartWithoutStatusAndDate ==
    /\ content.kind = "vm"
    /\ content.company_chart.kind = "bar"
    /\ last.status_col = None /\ last.date_col = None
    /\ content.status_pie.kind = "empty"
    /\ content.timeline_chart.kind = "empty"

\* ---- C24 ----
\* the bars of the company chart and the counts of the fetched company column
CompanyEntries == content.company_chart.entries
CompanyCounts == ValueCounts(RawCells(last.company_col))

\* the bars are the most frequent companies, most frequent first
TopCompaniesDescending ==
    LET n == Len(CompanyEntries)
    IN  /\ n = (IF Cardinality(CompanyCounts) < TopN
                THEN Cardinality(CompanyCounts) ELSE TopN)
        /\ \A i \in 1..n : CompanyEntries[i] \in CompanyCounts
        /\ \A i, j \in 1..n : i < j =>
              /\ CompanyEntries[i] # CompanyEntries[j]
              /\ CompanyEntries[i].value >= CompanyEntries[j].value
        /\ \A e \in CompanyCounts \ Range(CompanyEntries) :
              \A i \in 1..n : e.value <= CompanyEntries[i].value

\* bars of equal height stand in the order in which the rows first name them
EqualCountsInSheetOrder ==
    \A i, j \in 1..Len(CompanyEntries) :
        (i < j /\ CompanyEntries[i].value = CompanyEntries[j].value) =>
            FirstRow(RawCells(last.company_col), CompanyEntries[i].label)
                < FirstRow(RawCells(last.company_col), CompanyEntries[j].label)

LinkTo(url) == <<"[","l","i","n","k","]","(">> \o url \o <<")">>

\* C25: in a link-like column a cell with a non-blank value shows the
\* reference labelled 'link' to the value as fetched, and a missing or blank
\* cell shows the empty text, never a missing value; the cells of the other
\* columns are not turned into references: they show the fetched value, or
\* its parsed date in the column bound to Date.
C25_LinkCellsReferenceOrEmpty ==
    content.kind = "vm" =>
        \A i \in 1..Len(Raw.columns), r \in 1..Len(Raw.rows) :
            LET raw == Raw.rows[r][i]
                shown == content.data[r][i]
            IN  IF LinkLikeHeader(Raw.columns[i])
                THEN /\ ~IsNA(shown)
                     /\ shown.t = "str"
                     /\ shown.s = (IF ~IsNA(raw) /\ Strip(raw.s) # <<>>
                                   THEN LinkTo(raw.s) ELSE <<>>)
                ELSE shown = (IF last.headers[i] = last.date_col
                              THEN ToDatetime(raw) ELSE raw)

\* a ViewModel whose link-like column has a row with a URL, shown as a
\* reference, and a row without value, shown as empty text, beside a column
\* that is not link-like
C25_UrlAndMissingInLinkColumn ==
    /\ content.kind = "vm"
    /\ \E i, j \in 1..Len(Raw.columns), r, q \in 1..Len(Raw.rows) :
          /\ LinkLikeHeader(Raw.columns[i])
          /\ ~LinkLikeHeader(Raw.columns[j])
          /\ Raw.rows[r][i] = VUrl /\ content.data[r][i] = Str(LinkTo(VUrl.s))
          /\ IsNA(Raw.rows[q][i]) /\ content.data[q][i] = Str(<<>>)

\* ---- C26 ----
\* the fetched rows whose status is the text v
RowsWithStatus(v) ==
    {r \in 1..Len(Raw.rows) : RawCells(last.status_col)[r] = v}

\* the fetched rows that have a status
RowsWithAStatus ==
    {r \in 1..Len(Raw.rows) : ~IsNA(RawCells(last.status_col)[r])}

\* the pie has, for every status text some row carries, one entry with the
\* number of rows carrying exactly that text, and no other entry
PieCountsRawTexts ==
    /\ content.status_pie.kind = "pie"
    /\ \A r \in RowsWithAStatus :
          [label |-> RawCells(last.status_col)[r],
           value |-> Cardinality(RowsWithStatus(RawCells(last.status_col)[r]))]
              \in content.status_pie.entries
    /\ \A e \in content.status_pie.entries :
          /\ ~IsNA(e.label)
          /\ e.value > 0
          /\ e.value = Cardinality(RowsWithStatus(e.label))

\* C26: the status pie has one entry per distinct status text as fetched,
\* counting the rows with exactly that text, rows without status counting
\* nowhere; it is a placeholder when Status does not resolve or no row has a
\* status.
C26_PieCountsRawStatusTexts ==
    Built =>
        /\ content.kind = "vm"
        /\ IF last.status_col = None \/ RowsWithAStatus = {}
           THEN content.status_pie.kind = "empty"
           ELSE PieCountsRawTexts

\* ---- C27 ----
\* C27: in a populated timeline the Count of a point is its number among the
\* points of its status, so the points of a status carry 1, 2, ..., n in the
\* order of emission, n being the number of fetched rows with a valid date
\* and that status; there are as many points as rows with a valid date and a
\* status.
C27_CountsRunPerStatus ==
    (content.kind = "vm" /\ content.timeline_chart.kind = "line") =>
        LET pts == content.timeline_chart.points
            s == RawCells(last.status_col)
        IN  /\ \A k \in 1..Len(pts) :
                  pts[k].Count =
                      Cardinality({i \in 1..k : pts[i].Status = pts[k].Status})
            /\ \A k \in 1..Len(pts) :
                  Cardinality({i \in 1..Len(pts) : pts[i].Status = pts[k].Status})
                  = Cardinality({r \in EligibleRows : s[r] = pts[k].Status})
            /\ \A r \in EligibleRows : \E k \in 1..Len(pts) : pts[k].Status = s[r]
            /\ Len(pts) = Cardinality(EligibleRows)

\* a timeline of two statuses whose points interleave: the second status
\* starts at 1 after the first reached 1, and the first goes on with 2
C27_TwoStatusesInterleaved ==
    /\ content.kind = "vm"
    /\ content.timeline_chart.kind = "line"
    /\ LET pts == content.timeline_chart.points
       IN  /\ Len(pts) = 3
           /\ pts[1].Status = pts[3].Status
           /\ pts[2].Status # pts[1].Status
           /\ pts[1].Count = 1 /\ pts[2].Count = 1 /\ pts[3].Count = 2

\* ---- C28 ----
\* C28: a call of create_user_dashboard that returns an error (no URL given,
\* a URL without sheet identifier, a failed fetch, a failed write) leaves the
\* columns file and the URL file as they were.
C28_FailedCreationLeavesSideFiles ==
    [][created'.kind \in {"missing", "error"} =>
          (colsFile' = colsFile /\ urlFile' = urlFile)]_vars

\* ---- C29 ----
\* the fetched rows whose status, lower-cased, contains one of the words
RowsNaming(words) ==
    LET cells == RawCells(last.status_col)
    IN  {r \in 1..Len(cells) :
            ~IsNA(cells[r]) /\ ContainsAny(Lower(cells[r].s), words)}

\* C29: in a ViewModel with Status resolved, every row the Approved counter
\* or the Interviews counter counts is a success row of the success rate, so
\* neither counter exceeds the number of success rows, which does not exceed
\* the total.
C29_CountedRowsAreSuccessRows ==
    (content.kind = "vm" /\ last.status_col # None) =>
        /\ RowsNaming(ApprovedPatterns) \subseteq SuccessRows
        /\ RowsNaming(InterviewPatterns) \subseteq SuccessRows
        /\ content.approved_count <= Cardinality(SuccessRows)
        /\ content.interview_count <= Cardinality(SuccessRows)
        /\ Cardinality(SuccessRows) <= content.total_applications

\* ---- C30 ----
\* request r holds a fetched sheet from which the build returns a ViewModel
RefreshAboutToSucceed(r) ==
    /\ reqs[r].pc = "fetched"
    /\ reqs[r].fetch.ok
    /\ ~Build(reqs[r].fetch, page.arg).raised

\* C30: while the region shows the error message the dashboard page with its
\* timer and its refresh button is still displayed and either of them can
\* start a refresh, and a refresh whose fetch and pipeline succeed replaces
\* the error message by its ViewModel.
C30_ErrorStateNotAbsorbing ==
    /\ [](content.kind = "error" =>
            /\ page.kind = "dashboard"
            /\ \A r \in Requests : reqs[r].pc = "idle" =>
                  /\ ENABLED UpdateDashboardContent(r, "click")
                  /\ ENABLED UpdateDashboardContent(r, "tick"))
    /\ [][\A r \in Requests :
            (content.kind = "error" /\ RefreshAboutToSucceed(r) /\ RespondStep(r)) =>
                /\ content'.kind = "vm"
                /\ content' = ViewModel(Build(reqs[r].fetch, page.arg))]_vars

\* the region shows the error message, no build has succeeded so far, and a
\* refresh that fetched the sheet is about to return its ViewModel
C30_ErrorShownRefreshSucceeding ==
    /\ content.kind = "error"
    /\ ~everBuilt
    /\ \E r \in Requests : RefreshAboutToSucceed(r)

====
